---- MODULE Spec2Model ----
(***************************************************************************)
(* Transfer orchestration engine of the tape drive controller:             *)
(*   tape/backup.py   run_backup, run_restore, list_tape_contents, erase,  *)
(*                    _compute_total_size, the checkpoint parser           *)
(*   tape/ltfs.py     run_ltfs_rsync, mount_ltfs_only, unmount_ltfs,       *)
(*                    unmount_leftover_ltfs_mounts                         *)
(*   tape/capacity.py query_remaining_capacity_bytes                       *)
(*   ui/app.py        MainWindow (task slots, buttons, holders, destroy)   *)
(* Spec         : one call of run_backup, run_restore, list_tape_contents  *)
(*                or erase against a nondeterministic environment          *)
(*                (processes, time).                                       *)
(* SpecLtfs     : one call of run_ltfs_rsync, mount_ltfs_only or           *)
(*                format_ltfs, and unmount_ltfs calls after a mount.       *)
(* SpecList     : list_tape_contents reading a long listing.               *)
(* SpecProgress : the read loop and the timer thread of run_ltfs_rsync on  *)
(*                the shared byte counter, up to the call's return.        *)
(* SpecSweep    : consecutive calls of unmount_leftover_ltfs_mounts.       *)
(* SpecPure     : one application of a pure function to any argument.      *)
(* SpecUI       : the main window's tar-mode handlers and worker threads.  *)
(* SpecSession  : the main window's LTFS session handlers and workers.     *)
(***************************************************************************)
EXTENDS Integers, Sequences, FiniteSets, TLC

(* ------------------------------ bounds -------------------------------- *)
MaxLines == 2       \* output lines one supervised process may emit
MaxSize == 2        \* largest byte count a single du line reports
PollBound == 2      \* poll ticks within which a cancel request must be seen
MaxPolls == 2       \* polls of the mount table before the 30 s deadline
MaxThreads == 2     \* threads of the window alive or referenced at once
MaxIdle == 2        \* callbacks waiting in the main loop's idle queue
MaxDirs == 2        \* session directories mkdtemp creates in one run of the window
MaxLeftover == 3    \* session directories left behind by earlier runs
MaxSweeps == 2      \* consecutive calls of unmount_leftover_ltfs_mounts
MaxTicks == 2       \* progress updates the timer thread of run_ltfs_rsync emits
PipeLines == 2      \* lines the pipe of tar -tv holds before tar blocks
MaxListing == 200   \* lines of the longest tar -tv listing

(* None of Python, for Optional[int] values *)
None == 0 - 1
(* a du output line whose first field is not a number *)
Unparsable == 0 - 2
(* the end-of-stream marker the reader thread puts on line_queue *)
EOS == 0
(* the two lines erase itself hands to on_log *)
EraseStarted == 0 - 3
EraseCompleted == 0 - 4
(* list_tape_contents notifies at every multiple of this many entries *)
NOTIFY_EVERY == 100
(* exit status of a process ended by SIGKILL *)
Killed == 0 - 9

VARIABLES
    op,               \* engine function being executed
    pc,               \* position inside it
    outcome,          \* how the call ended (return value / exception raised)
    skip_rewind, max_tape_bytes, archive_number,   \* call arguments
    total_bytes,      \* run_backup / run_ltfs_rsync: computed size or None
    cmds,             \* external commands spawned so far, in order
    proc,             \* supervised tar / rsync process: none, running, exited
    returncode,       \* its exit code once exited
    pipe,             \* lines written by the process, not yet read
    emitted,          \* number of lines the process has written
    line_queue,       \* list_tape_contents: queue between reader and loop
    reader_done,      \* reader thread reached end of stream (list: put the
                      \* marker; erase: read_done.set())
    logged,           \* lines handed to on_log, in order
    entries,          \* list_tape_contents: parsed entries
    returned,         \* list_tape_contents: what the caller received
    cancel_requested, \* value of the cancel predicate
    termSent,         \* proc.terminate() was called on the supervised process
    killSent,         \* proc.kill() was called on the supervised process
    cancelObserved,   \* the loop saw cancel_check() return True
    cancelWhileRunning, \* cancel became true while the process was running
    outlivedGrace,    \* the process was still running when a timed wait on
                      \* it expired (wait(10) after terminate; erase deadline)
    sinceCancel,      \* poll ticks elapsed since cancel without a check
    gotLine,          \* list loop consumed a line in the current poll tick
    (* LTFS: environment *)
    dirs,             \* existing /tmp/ltfs_tape_* directories
    mounted,          \* those of them os.path.ismount reports as mounted
    nextDir,          \* number of directories tempfile.mkdtemp has created
    (* LTFS: run_ltfs_rsync / mount_ltfs_only *)
    mount_point,      \* local mount_point (None before mkdtemp)
    ltfs_proc,        \* the ltfs process of this call: none, running, exited
    polls,            \* polls of the mount table done before the deadline
    pending,          \* verdict (return / exception) in flight during cleanup
    process_holder,   \* caller's list of child processes
    mount_point_holder, \* caller's one-element list: holder[0]
    ltfsTermSent, ltfsKillSent,  \* signals sent to the ltfs process
    unmountTried,     \* cleanup ran fusermount -u / umount on mount_point
    rmdirMounted,     \* os.rmdir was called on a directory then mounted
    visibleAtPoll,    \* a poll before the deadline saw mount_point mounted
    daemonized,       \* ... and ltfs_proc.poll() was not None at that poll
    earlyExit,        \* a poll saw ltfs exited and mount_point not mounted
    timedOut,         \* the check after the loop saw mount_point not mounted
    rsyncWaits,       \* calls of proc.wait on the rsync process
    (* LTFS: preconditions, sweep result, unmount commands *)
    have,             \* which tools are installed, is the sg alias resolvable
    scanned,          \* sweep: candidates that were mounted when scanned
    count,            \* sweep: the returned count (None before a sweep)
    fmLeft,           \* fusermount -u ran and the mount point stayed mounted
    fbTried,          \* the fallback `umount` was attempted
    umCalls,          \* calls of unmount_ltfs made after mount_ltfs_only
    (* pure functions of the engine *)
    applied,          \* the function applied last ("none" before any call)
    argument,         \* its argument and the answers of the tools it runs
    result,           \* what it returned
    (* run_ltfs_rsync: the byte counter shared with the timer thread *)
    bytes_ref,        \* bytes_ref[0]
    timer,            \* timer_tick: position, dest_size, stop_timer is set
    timer_updates,    \* bytes passed to on_progress_update by timer_tick
    ltfs_updates,     \* run_ltfs_rsync: who called on_progress_update with
                      \* which byte count, in order, and the call's return
    (* what the environment saw of the archive functions *)
    mt_runs,          \* calls of _run_mt: the mt command and how it ended
    du_run,           \* run_backup: how the sizing command ended
    update_totals,    \* the total of each on_progress_update call, in order
    listing,          \* list_tape_contents: for each line tar can print,
                      \* does it match _TAR_LIST_LINE
    progress_msgs,    \* on_progress calls of list_tape_contents, in order
    (* MainWindow *)
    thr,              \* threads started by the window: kind, phase, mount point
    slot,             \* the _xxx_thread attributes: 0 (None) or a thread id
    idle,             \* callbacks queued with GLib.idle_add, oldest first
    sens,             \* sensitivity of the buttons
    ltfs_mode_row,    \* the row with Mount / Unmount / Exit LTFS mode is shown
    main_box,         \* the main content is sensitive (loading overlay gone)
    ltfs_mode,        \* _ltfs_mode
    ltfs_standalone_mount,  \* _ltfs_standalone_mount
    cancel,           \* the four cancel flags, by task
    procs,            \* child processes (ltfs, rsync) currently running
    shutdown          \* _on_destroy: did it run, the children alive when it
                      \* reached its terminate loop, those it signalled (in
                      \* order), and whether it reached app.quit()

args   == <<skip_rewind, max_tape_bytes, archive_number>>
purev  == <<applied, argument, result>>
progv  == <<bytes_ref, timer, timer_updates, ltfs_updates>>
obsv   == <<mt_runs, du_run, update_totals>>
lstv   == <<listing, progress_msgs>>
procv  == <<proc, returncode, pipe, emitted>>
listv  == <<line_queue, reader_done, entries, returned>>
sigv   == <<termSent, killSent>>
histv  == <<cancelObserved, cancelWhileRunning, outlivedGrace, sinceCancel,
            gotLine>>
supVars == <<op, pc, outcome, args, purev, progv, lstv, obsv, total_bytes,
             cmds, procv, listv, logged, cancel_requested, sigv, histv>>

ltfsEnv  == <<dirs, mounted, nextDir>>
ltfsLoc  == <<mount_point, ltfs_proc, polls, pending>>
holders  == <<process_holder, mount_point_holder>>
ltfsSig  == <<ltfsTermSent, ltfsKillSent>>
ltfsHist == <<unmountTried, rmdirMounted, visibleAtPoll, daemonized, earlyExit,
              timedOut, rsyncWaits>>
ltfsVars == <<ltfsEnv, ltfsLoc, holders, ltfsSig, ltfsHist>>
callv    == <<have, scanned, count, fmLeft, fbTried, umCalls>>

uiVars == <<thr, slot, idle, sens, ltfs_mode_row, main_box, ltfs_mode,
            ltfs_standalone_mount, cancel, procs, shutdown>>
(* the state of the engine functions called directly *)
engineState == <<supVars, ltfsLoc, ltfsSig, ltfsHist, callv>>
(* what the handlers and threads of the window leave alone *)
engineVars == <<engineState, shutdown>>

(* what the actions of the archive functions leave alone *)
nonSup == <<ltfsVars, callv, uiVars>>
(* the archive-function state except pc and outcome *)
supVars_but_pure == <<op, pc, outcome, args, progv, obsv, lstv, total_bytes,
                      cmds, procv, listv, logged, cancel_requested, sigv,
                      histv>>
supRest == <<op, args, purev, progv, lstv, obsv, total_bytes, cmds, procv,
             listv, logged, cancel_requested, sigv, histv>>

vars == <<supVars, ltfsVars, callv, uiVars>>

(* ------------------------- pure helpers -------------------------------- *)
RECURSIVE SumParsed(_)
SumParsed(lines) ==
    IF lines = <<>> THEN 0
    ELSE IF Head(lines) = Unparsable THEN Unparsable   \* int() raises ValueError
    ELSE LET rest == SumParsed(Tail(lines))
         IN  IF rest = Unparsable THEN Unparsable ELSE Head(lines) + rest

(* outcome of the sizing command: kind is ok / nonzero / timeout / missing *)
DuField == (1..MaxSize) \cup {Unparsable}
DuLines == {<<>>} \cup {<<a>> : a \in DuField}
                  \cup {<<a, b>> : a \in DuField, b \in DuField}
DuOutcomes == [kind : {"ok"}, lines : DuLines]
              \cup [kind : {"nonzero", "timeout", "missing"}, lines : {<<>>}]

compute_total_size_positive_on_failure(du) ==
    IF du.kind # "ok" THEN 1
    ELSE LET s == SumParsed(du.lines) IN IF s = Unparsable THEN 0 ELSE s
compute_total_size(du) ==
    IF du.kind # "ok" THEN 0
    ELSE LET s == SumParsed(du.lines) IN IF s = Unparsable THEN 0 ELSE s

MaxTapeVals == {None} \cup (0..(MaxSize + 1))

capacity_exceeded_units(total, max) ==
    /\ max # None /\ max > 0 /\ total # None
    /\ total > max * 1024
capacity_exceeded(total, max) ==
    /\ max # None /\ max > 0 /\ total # None
    /\ total > max

(* outcome of one `mt -f <device> <verb>` run by _run_mt *)
MtOutcomes == {"ok", "nonzero", "timeout", "missing"}

Ended(o) == /\ pc' = "done" /\ outcome' = o

(* the command log: was c spawned, and how many times *)
Spawned(c) == \E i \in 1..Len(cmds) : cmds[i] = c
Count(c) == Cardinality({i \in 1..Len(cmds) : cmds[i] = c})
(* was line l handed to on_log *)
InLog(l) == \E i \in 1..Len(logged) : logged[i] = l

(* run_backup before _compute_total_size has run *)
NoDu == [kind |-> "none", lines |-> <<>>]

(* the timer thread of run_ltfs_rsync before it is started *)
NoTimer == [pc |-> "none", dest_size |-> 0, stop |-> FALSE]

(* ------------------------- initial state ------------------------------- *)
SupInit ==
    /\ op = "none" /\ pc = "idle" /\ outcome = "none"
    /\ skip_rewind = FALSE /\ max_tape_bytes = None /\ archive_number = 1
    /\ total_bytes = None
    /\ cmds = <<>> /\ proc = "none" /\ returncode = None
    /\ pipe = <<>> /\ emitted = 0 /\ line_queue = <<>> /\ reader_done = FALSE
    /\ logged = <<>> /\ entries = <<>>
    /\ returned = [ok |-> FALSE, entries |-> <<>>]
    /\ cancel_requested = FALSE /\ termSent = FALSE /\ killSent = FALSE
    /\ cancelObserved = FALSE /\ cancelWhileRunning = FALSE
    /\ outlivedGrace = FALSE /\ sinceCancel = 0 /\ gotLine = FALSE
    /\ applied = "none" /\ argument = <<>> /\ result = <<>>
    /\ bytes_ref = 0 /\ timer = NoTimer /\ timer_updates = <<>>
    /\ ltfs_updates = <<>>
    /\ mt_runs = <<>> /\ du_run = NoDu /\ update_totals = <<>>
    /\ listing = <<>> /\ progress_msgs = <<>>

(* ------------------------- the calls ----------------------------------- *)
call_run_backup ==
    /\ pc = "idle"
    /\ \E sr \in BOOLEAN, mx \in MaxTapeVals :
          /\ skip_rewind' = sr /\ max_tape_bytes' = mx
    /\ op' = "backup" /\ pc' = "precheck"
    /\ UNCHANGED <<nonSup, purev, progv, lstv, obsv, outcome, archive_number,
                   total_bytes, cmds, procv, listv, logged, cancel_requested,
                   sigv, histv>>

call_run_restore ==
    /\ pc = "idle"
    /\ \E sr \in BOOLEAN, n \in 1..2 :
          /\ skip_rewind' = sr /\ archive_number' = n
    /\ op' = "restore" /\ pc' = "rewind"
    /\ update_totals' = Append(update_totals, None)    \* 358-359
    /\ UNCHANGED <<nonSup, purev, progv, lstv, mt_runs, du_run, outcome,
                   max_tape_bytes, total_bytes, cmds, procv, listv, logged,
                   cancel_requested, sigv, histv>>

(* what tar -tv can print: every short listing, and long ones in which   *)
(* every line, two lines of three, or no line matches _TAR_LIST_LINE      *)
ShortListings == UNION {[1..n -> BOOLEAN] : n \in 0..MaxLines}
LongListings ==
    {[i \in 1..MaxListing |-> i % k # 0] : k \in {1, 3, MaxListing + 1}}

list_tape_contents(listings) ==
    /\ pc = "idle"
    /\ \E sr \in BOOLEAN : skip_rewind' = sr
    /\ \E l \in listings : listing' = l
    /\ op' = "list" /\ pc' = "rewind"
    /\ UNCHANGED <<nonSup, purev, progv, obsv, progress_msgs, outcome,
                   max_tape_bytes, archive_number, total_bytes, cmds, procv,
                   listv, logged, cancel_requested, sigv, histv>>

call_list_tape_contents == list_tape_contents(ShortListings)
call_list_tape_contents_long == list_tape_contents(LongListings)

(* run_backup 253-265: size, first progress update, capacity check *)
run_backup_precheck ==
    /\ pc = "precheck" /\ op = "backup"
    /\ \E du \in DuOutcomes :
         LET t  == compute_total_size(du)
             tb == IF t = 0 THEN None ELSE t
         IN  /\ total_bytes' = tb
             /\ du_run' = du
             /\ update_totals' = Append(update_totals, tb)
             /\ IF capacity_exceeded(tb, max_tape_bytes)
                THEN Ended("capacity_exceeded")
                ELSE /\ pc' = "rewind" /\ UNCHANGED outcome
    /\ UNCHANGED <<nonSup, op, args, purev, progv, lstv, mt_runs, cmds, procv,
                   listv, logged, cancel_requested, sigv, histv>>

(* rewind(device) unless skip_rewind; it runs outside the try blocks, so   *)
(* TimeoutExpired and FileNotFoundError of _run_mt leave the call raw      *)
AfterRewind == IF op = "restore" THEN "fsf" ELSE "spawn"
MtStep_ignores_exit_code(verb, next) ==
    \E r \in MtOutcomes :
       /\ cmds' = IF r = "missing" THEN cmds ELSE Append(cmds, verb)
       /\ mt_runs' = Append(mt_runs, <<verb, r>>)
       /\ CASE r \in {"ok", "nonzero"} -> pc' = next /\ UNCHANGED outcome
            [] r = "timeout" -> Ended("raw_TimeoutExpired")
            [] r = "missing" -> Ended("raw_FileNotFoundError")
MtStep(verb, next) ==
    \E r \in MtOutcomes :
       /\ cmds' = IF r = "missing" THEN cmds ELSE Append(cmds, verb)
       /\ mt_runs' = Append(mt_runs, <<verb, r>>)
       /\ CASE r = "ok"      -> pc' = next /\ UNCHANGED outcome
            [] r = "nonzero" -> Ended("positioning_failed")
            [] r = "timeout" -> Ended("raw_TimeoutExpired")
            [] r = "missing" -> Ended("raw_FileNotFoundError")

rewind ==
    /\ pc = "rewind"
    /\ IF skip_rewind
       THEN pc' = AfterRewind /\ UNCHANGED <<cmds, outcome, mt_runs>>
       ELSE MtStep("mt_rewind", AfterRewind)
    /\ UNCHANGED <<nonSup, op, args, purev, progv, lstv, du_run, update_totals,
                   total_bytes, procv, listv, logged, cancel_requested, sigv,
                   histv>>

(* run_restore 362-363 with forward_space_files *)
forward_space_files ==
    /\ pc = "fsf"
    /\ IF archive_number > 1
       THEN MtStep("mt_fsf", "spawn")
       ELSE pc' = "spawn" /\ UNCHANGED <<cmds, outcome, mt_runs>>
    /\ UNCHANGED <<nonSup, op, args, purev, progv, lstv, du_run, update_totals,
                   total_bytes, procv, listv, logged, cancel_requested, sigv,
                   histv>>

(* subprocess.Popen(tar ...) inside the try: FileNotFoundError is caught   *)
spawn_tar ==
    /\ pc = "spawn"
    /\ \E found \in BOOLEAN :
         IF found
         THEN /\ proc' = "running" /\ cmds' = Append(cmds, "tar")
              /\ pc' = "read" /\ UNCHANGED outcome
         ELSE /\ Ended("not_found") /\ UNCHANGED <<proc, cmds>>
    /\ UNCHANGED <<nonSup, op, args, purev, progv, lstv, obsv, total_bytes,
                   returncode, pipe, emitted, listv, logged, cancel_requested,
                   sigv, histv>>

(* --------------- the supervised process (environment) ------------------ *)
(* the process writes one more line to its output *)
proc_emit ==
    /\ proc = "running"
    /\ IF op = "list"
       THEN emitted < Len(listing) /\ Len(pipe) < PipeLines
       ELSE emitted < MaxLines
    /\ pc \in {"read", "rsync_top", "rsync_read", "format_read", "erase_wait"}
    /\ emitted' = emitted + 1
    /\ pipe' = Append(pipe, emitted + 1)
    /\ UNCHANGED <<nonSup, op, pc, outcome, args, purev, progv, lstv, obsv,
                   total_bytes, cmds, proc, returncode, listv, logged,
                   cancel_requested, sigv, histv>>

(* the process exits, by itself or because of a signal it was sent *)
proc_exit ==
    /\ proc = "running"
    /\ \E rc \in {0, 1} : returncode' = rc
    /\ proc' = "exited"
    /\ UNCHANGED <<nonSup, op, pc, outcome, args, purev, progv, lstv, obsv,
                   total_bytes, cmds, pipe, emitted, listv, logged,
                   cancel_requested, sigv, histv>>

(* the caller's cancel predicate becomes true (the flag is one-way) *)
request_cancel ==
    /\ ~cancel_requested
    /\ pc \notin {"idle", "done"}
    /\ op # "erase"      \* erase takes no cancel predicate
    /\ cancel_requested' = TRUE
    /\ cancelWhileRunning' = (proc = "running")
    /\ UNCHANGED <<nonSup, op, pc, outcome, args, purev, progv, lstv, obsv,
                   total_bytes, cmds, procv, listv, logged, sigv,
                   cancelObserved, outlivedGrace, sinceCancel, gotLine>>

(* one poll interval passes after the cancel request during which the     *)
(* loop never evaluates cancel_check: run_backup / run_restore are blocked *)
(* in `for line in proc.stdout` with nothing to read (run_ltfs_rsync in    *)
(* os.read / stderr.read); list_tape_contents got a line from queue.get    *)
(* before its 0.5 s timeout                                                *)
poll_tick ==
    /\ pc \in {"read", "rsync_read"} /\ proc = "running" /\ cancel_requested
    /\ sinceCancel <= PollBound
    /\ IF op = "list" THEN gotLine ELSE pipe = <<>>
    /\ sinceCancel' = sinceCancel + 1
    /\ gotLine' = FALSE
    /\ UNCHANGED <<nonSup, op, pc, outcome, args, purev, progv, lstv, obsv,
                   total_bytes, cmds, procv, listv, logged, cancel_requested,
                   sigv, cancelObserved, cancelWhileRunning, outlivedGrace>>

(* --------------- run_backup / run_restore read loop -------------------- *)
(* for line in proc.stdout: cancel check first, then log(line), which     *)
(* makes a progress update when the line is a checkpoint line             *)
read_line ==
    /\ pc = "read" /\ op \in {"backup", "restore"}
    /\ pipe # <<>>
    /\ pipe' = Tail(pipe)
    /\ IF cancel_requested
       THEN /\ termSent' = TRUE /\ cancelObserved' = TRUE
            /\ pc' = "grace" /\ UNCHANGED <<logged, update_totals>>
       ELSE /\ logged' = Append(logged, Head(pipe))
            /\ \E checkpoint \in BOOLEAN :
                  update_totals' =
                     IF checkpoint
                     THEN Append(update_totals,
                                 IF op = "backup" THEN total_bytes ELSE None)
                     ELSE update_totals
            /\ UNCHANGED <<termSent, cancelObserved, pc>>
    /\ UNCHANGED <<nonSup, op, outcome, args, purev, progv, lstv, mt_runs,
                   du_run, total_bytes, cmds, proc, returncode, emitted,
                   listv, cancel_requested, killSent, cancelWhileRunning,
                   outlivedGrace, sinceCancel, gotLine>>

(* the for loop ends at end of stream *)
read_eof ==
    /\ pc = "read" /\ op \in {"backup", "restore"}
    /\ pipe = <<>> /\ proc = "exited"
    /\ pc' = "wait"
    /\ UNCHANGED <<nonSup, op, outcome, args, purev, progv, lstv, obsv,
                   total_bytes, cmds, procv, listv, logged, cancel_requested,
                   sigv, histv>>

(* proc.wait(); returncode check; final on_progress("Completed...");       *)
(* list_tape_contents then returns its entries                             *)
wait_exit ==
    /\ pc = "wait" /\ proc = "exited"
    /\ Ended(IF returncode # 0 THEN "tool_failed" ELSE "completed")
    /\ returned' = IF op = "list" /\ returncode = 0
                   THEN [ok |-> TRUE, entries |-> entries]
                   ELSE returned
    /\ progress_msgs' = IF op = "list" /\ returncode = 0
                        THEN Append(progress_msgs, <<"Read", Len(entries)>>)
                        ELSE progress_msgs
    /\ UNCHANGED <<nonSup, op, args, purev, progv, listing, obsv, total_bytes,
                   cmds, procv, line_queue, reader_done, entries, logged,
                   cancel_requested, sigv, histv>>

(* proc.wait(timeout=10) after terminate(): the process has exited *)
grace_exited ==
    /\ pc = "grace" /\ proc = "exited"
    /\ op \in {"backup", "restore", "list"}
    /\ Ended("cancelled")
    /\ UNCHANGED <<nonSup, op, args, purev, progv, lstv, obsv, total_bytes,
                   cmds, procv, listv, logged, cancel_requested, sigv, histv>>

(* proc.wait(timeout=10) raises TimeoutExpired: `except TapeBackupError`   *)
(* does not match, `except Exception` terminates again and raises          *)
(* TapeBackupError(str(e))                                                 *)
grace_timeout ==
    /\ pc = "grace" /\ proc = "running"
    /\ op \in {"backup", "restore", "list"}
    /\ outlivedGrace' = TRUE
    /\ termSent' = TRUE
    /\ Ended("generic_error")
    /\ UNCHANGED <<nonSup, op, args, purev, progv, lstv, obsv, total_bytes,
                   cmds, procv, listv, logged, cancel_requested, killSent,
                   cancelObserved, cancelWhileRunning, sinceCancel, gotLine>>

(* --------------- list_tape_contents ------------------------------------ *)
(* reader thread: for line in proc.stdout: line_queue.put(line);           *)
(* finally: line_queue.put(None)                                           *)
reader ==
    /\ op = "list" /\ proc # "none" /\ ~reader_done
    /\ IF pipe # <<>>
       THEN /\ line_queue' = Append(line_queue, Head(pipe))
            /\ pipe' = Tail(pipe) /\ UNCHANGED reader_done
       ELSE /\ proc = "exited"
            /\ line_queue' = Append(line_queue, EOS)
            /\ reader_done' = TRUE /\ UNCHANGED pipe
    /\ UNCHANGED <<nonSup, op, pc, outcome, args, purev, progv, lstv, obsv,
                   total_bytes, cmds, proc, returncode, emitted, entries,
                   returned, logged, cancel_requested, sigv, histv>>

(* 174-183: a line that matches the grammar becomes an entry; count is   *)
(* the number of entries, notified at every multiple of 100               *)
list_line_notifies_once(line) ==
    IF listing[line]
    THEN /\ entries' = Append(entries, line)
         /\ progress_msgs' =
               IF Len(entries) + 1 = NOTIFY_EVERY
               THEN Append(progress_msgs, <<"Reading", Len(entries) + 1>>)
               ELSE progress_msgs
    ELSE UNCHANGED <<entries, progress_msgs>>
list_line(line) ==
    IF listing[line]
    THEN /\ entries' = Append(entries, line)
         /\ progress_msgs' =
               IF (Len(entries) + 1) % NOTIFY_EVERY = 0
               THEN Append(progress_msgs, <<"Reading", Len(entries) + 1>>)
               ELSE progress_msgs
    ELSE UNCHANGED <<entries, progress_msgs>>

(* line_queue.get returned an item before the timeout *)
list_get ==
    /\ pc = "read" /\ op = "list"
    /\ line_queue # <<>>
    /\ line_queue' = Tail(line_queue)
    /\ IF Head(line_queue) = EOS
       THEN pc' = "wait" /\ UNCHANGED <<entries, gotLine, progress_msgs>>
       ELSE /\ list_line(Head(line_queue))
            /\ gotLine' = cancel_requested
            /\ UNCHANGED pc
    /\ UNCHANGED <<nonSup, op, outcome, args, purev, progv, listing, obsv,
                   total_bytes, cmds, procv, reader_done, returned, logged,
                   cancel_requested, sigv, cancelObserved, cancelWhileRunning,
                   outlivedGrace, sinceCancel>>

(* queue.Empty after cancel_poll_seconds: the only place cancel is checked *)
list_poll_timeout ==
    /\ pc = "read" /\ op = "list"
    /\ line_queue = <<>>
    /\ IF cancel_requested
       THEN /\ termSent' = TRUE /\ cancelObserved' = TRUE /\ pc' = "grace"
       ELSE UNCHANGED <<termSent, cancelObserved, pc>>
    /\ UNCHANGED <<nonSup, op, outcome, args, purev, progv, lstv, obsv,
                   total_bytes, cmds, procv, listv, logged, cancel_requested,
                   killSent, cancelWhileRunning, outlivedGrace, sinceCancel,
                   gotLine>>

(* --------------- erase (backup.py 40-84) -------------------------------- *)
(* line 54: the first statement logs the start line *)
call_erase ==
    /\ pc = "idle"
    /\ op' = "erase" /\ pc' = "erase_spawn"
    /\ logged' = Append(logged, EraseStarted)
    /\ UNCHANGED <<nonSup, outcome, args, purev, progv, lstv, obsv,
                   total_bytes, cmds, procv, listv, cancel_requested, sigv,
                   histv>>

(* lines 55-73: Popen(mt erase) outside any try, then the reader thread *)
erase_spawn ==
    /\ pc = "erase_spawn"
    /\ \E found \in BOOLEAN :
         IF found
         THEN /\ proc' = "running" /\ cmds' = Append(cmds, "mt_erase")
              /\ pc' = "erase_wait" /\ UNCHANGED outcome
         ELSE /\ Ended("raw_FileNotFoundError") /\ UNCHANGED <<proc, cmds>>
    /\ UNCHANGED <<nonSup, op, args, purev, progv, lstv, obsv, total_bytes,
                   returncode, pipe, emitted, listv, logged, cancel_requested,
                   sigv, histv>>

(* read_stdout 65-70: log every line, set read_done at end of stream *)
read_stdout ==
    /\ op = "erase" /\ proc # "none" /\ ~reader_done
    /\ IF pipe # <<>>
       THEN /\ logged' = Append(logged, Head(pipe))
            /\ pipe' = Tail(pipe) /\ UNCHANGED reader_done
       ELSE /\ proc = "exited"
            /\ reader_done' = TRUE /\ UNCHANGED <<pipe, logged>>
    /\ UNCHANGED <<nonSup, op, pc, outcome, args, purev, progv, lstv, obsv,
                   total_bytes, cmds, proc, returncode, emitted, line_queue,
                   entries, returned, cancel_requested, sigv, histv>>

(* line 75: proc.wait(timeout) returns, the process has exited *)
erase_wait_exited ==
    /\ pc = "erase_wait" /\ proc = "exited"
    /\ pc' = "erase_join"
    /\ UNCHANGED <<nonSup, op, outcome, args, purev, progv, lstv, obsv,
                   total_bytes, cmds, procv, listv, logged, cancel_requested,
                   sigv, histv>>

(* lines 76-78: the deadline passes first; proc.kill(); proc.wait()        *)
erase_deadline ==
    /\ pc = "erase_wait" /\ proc = "running"
    /\ outlivedGrace' = TRUE /\ killSent' = TRUE
    /\ proc' = "exited" /\ returncode' = Killed
    /\ pc' = "erase_join"
    /\ UNCHANGED <<nonSup, op, outcome, args, purev, progv, lstv, obsv,
                   total_bytes, cmds, pipe, emitted, listv, logged,
                   cancel_requested, termSent, cancelObserved,
                   cancelWhileRunning, sinceCancel, gotLine>>

(* the exit of erase, lines 76-84, from whether the deadline passed and    *)
(* the exit code                                                           *)
erase_verdict_ignores_exit_code(timed_out, rc) ==
    IF timed_out THEN "timed_out" ELSE "completed"
erase_verdict(timed_out, rc) ==
    IF timed_out THEN "timed_out"
    ELSE IF rc # 0 THEN "tool_failed"
    ELSE "completed"

(* read_done.wait(timeout=5) returns (set, or 5 s passed), then lines      *)
(* 80 / 82-84                                                              *)
erase_finish ==
    /\ pc = "erase_join"
    /\ LET v == erase_verdict(outlivedGrace, returncode)
       IN  /\ Ended(v)
           /\ logged' = IF v = "completed" THEN Append(logged, EraseCompleted)
                        ELSE logged
    /\ UNCHANGED <<nonSup, op, args, purev, progv, lstv, obsv, total_bytes,
                   cmds, procv, listv, cancel_requested, sigv, histv>>

(* ======================= capacity.py =================================== *)
LTO9_MISREPORT_MIN_GB == 50
LTO9_MISREPORT_MAX_GB == 500
LTO9_MISREPORT_FACTOR == 161

(* A byte count b is kept as [mib, rem] with b = mib * 2^20 + rem and      *)
(* 0 <= rem < 2^20, so that capacities of terabytes stay within the        *)
(* integers of the checker; the arithmetic below is exact.                 *)
MiB == 1024 * 1024
FromMiB(m) == [mib |-> m, rem |-> 0]        \* mib * 1024 * 1024
NoResult == [mib |-> None, rem |-> 0]       \* Optional[int] None

(* raw capacities around both ends of the band, inside it and far outside  *)
SampleMiB == {0, 1, 120 * 1024, 18874368}
             \cup {g * 1024 + d : g \in {LTO9_MISREPORT_MIN_GB,
                                         LTO9_MISREPORT_MAX_GB},
                                  d \in {0 - 1, 0, 1}}
SampleBytes == [mib : SampleMiB, rem : {0, 1, MiB - 1}]

(* _apply_lto9_misreport_correction 92-97: gb = bytes_val / 1024**3 is     *)
(* exact for these magnitudes, so MIN <= gb <= MAX compares the bytes      *)
misreport_correction_max_excluded(b) ==
    IF /\ b.mib >= LTO9_MISREPORT_MIN_GB * 1024
       /\ b.mib < LTO9_MISREPORT_MAX_GB * 1024
    THEN [mib |-> b.mib * LTO9_MISREPORT_FACTOR
                    + (b.rem * LTO9_MISREPORT_FACTOR) \div MiB,
          rem |-> (b.rem * LTO9_MISREPORT_FACTOR) % MiB]
    ELSE b
apply_lto9_misreport_correction(b) ==
    IF /\ b.mib >= LTO9_MISREPORT_MIN_GB * 1024
       /\ \/ b.mib < LTO9_MISREPORT_MAX_GB * 1024
          \/ (b.mib = LTO9_MISREPORT_MAX_GB * 1024 /\ b.rem = 0)
    THEN [mib |-> b.mib * LTO9_MISREPORT_FACTOR
                    + (b.rem * LTO9_MISREPORT_FACTOR) \div MiB,
          rem |-> (b.rem * LTO9_MISREPORT_FACTOR) % MiB]
    ELSE b

(* query_remaining_capacity_bytes 100-123. ans[<<dev, tool>>] is what the  *)
(* tool reports for the device: a capacity in MiB, or None when            *)
(* _query_sg_logs / _query_sg_read_attr return None                        *)
Devices == {"nst", "sg"}
Tools == {"sg_logs", "sg_read_attr"}
Queries == Devices \X Tools
Answers == [Queries -> {None, 60 * 1024, 70 * 1024, 18874368}]
devices_to_try(sg_dev) == IF sg_dev THEN <<"nst", "sg">> ELSE <<"nst">>

RECURSIVE first_result(_, _, _)
first_result(devs, tool, ans) ==
    IF devs = <<>> THEN None
    ELSE IF ans[<<Head(devs), tool>>] # None THEN ans[<<Head(devs), tool>>]
    ELSE first_result(Tail(devs), tool, ans)

query_remaining_capacity_bytes(sg_dev, ans) ==
    LET devs == devices_to_try(sg_dev)
        logs == first_result(devs, "sg_logs", ans)
        attr == first_result(devs, "sg_read_attr", ans)
    IN  IF logs # None THEN apply_lto9_misreport_correction(FromMiB(logs))
        ELSE IF attr # None THEN apply_lto9_misreport_correction(FromMiB(attr))
        ELSE NoResult

(* one call of one of the functions, with any argument *)
call_apply_lto9_misreport_correction ==
    /\ applied = "none"
    /\ \E b \in SampleBytes :
         /\ argument' = b
         /\ result' = apply_lto9_misreport_correction(b)
    /\ applied' = "correction"
    /\ UNCHANGED <<supVars_but_pure, ltfsVars, callv, uiVars>>

call_query_remaining_capacity_bytes ==
    /\ applied = "none"
    /\ \E sg_dev \in BOOLEAN, ans \in Answers :
         /\ argument' = [sg_dev |-> sg_dev, ans |-> ans]
         /\ result' = query_remaining_capacity_bytes(sg_dev, ans)
    /\ applied' = "query"
    /\ UNCHANGED <<supVars_but_pure, ltfsVars, callv, uiVars>>

call_compute_total_size ==
    /\ applied = "none"
    /\ \E du \in DuOutcomes :
         /\ argument' = du
         /\ result' = compute_total_size(du)
    /\ applied' = "total_size"
    /\ UNCHANGED <<supVars_but_pure, ltfsVars, callv, uiVars>>

(* ---- run_backup.log 286-304 / run_restore.log 378-396 ----              *)
(* A line of tar output, by what the parser looks at: does it contain      *)
(* "CHECKPOINT ", the integer after it (None: no token, or int() raises),  *)
(* and the digits after the first "W:" and the first "R:" (None: no match) *)
CHECKPOINT_EVERY == 500
Counts == {None} \cup (0..MaxLines)
ByteCounts == {None} \cup (0..MaxSize)
TarLines == [marker : BOOLEAN, counter : Counts, W : ByteCounts, R : ByteCounts]
(* file_count and bytes_written / bytes_read before the line *)
ParserStates == [file_count : {n * CHECKPOINT_EVERY : n \in 0..MaxLines},
                 bytes : 0..MaxSize]
Label(dir, line) == IF dir = "backup" THEN line.W ELSE line.R

log_counts_checkpoints(dir, st, line) ==
    LET fc == IF line.marker /\ line.counter # None
              THEN line.counter ELSE st.file_count
        by == IF line.marker /\ Label(dir, line) # None
              THEN Label(dir, line) ELSE st.bytes
    IN  [file_count |-> fc, bytes |-> by,
         updates  |-> IF line.marker THEN <<by>> ELSE <<>>,
         progress |-> IF line.marker THEN <<fc>> ELSE <<>>,
         on_log   |-> <<line>>]
log(dir, st, line) ==
    LET fc == IF line.marker /\ line.counter # None
              THEN line.counter * CHECKPOINT_EVERY ELSE st.file_count
        by == IF line.marker /\ Label(dir, line) # None
              THEN Label(dir, line) ELSE st.bytes
    IN  [file_count |-> fc, bytes |-> by,
         updates  |-> IF line.marker THEN <<by>> ELSE <<>>,
         progress |-> IF line.marker THEN <<fc>> ELSE <<>>,
         on_log   |-> <<line>>]

call_log ==
    /\ applied = "none"
    /\ \E dir \in {"backup", "restore"}, st \in ParserStates, line \in TarLines :
         /\ argument' = [dir |-> dir, st |-> st, line |-> line]
         /\ result' = log(dir, st, line)
    /\ applied' = "log"
    /\ UNCHANGED <<supVars_but_pure, ltfsVars, callv, uiVars>>

PureNext ==
    \/ call_apply_lto9_misreport_correction
    \/ call_query_remaining_capacity_bytes
    \/ call_compute_total_size
    \/ call_log

(* ======================= LTFS: ltfs.py ================================= *)
LtfsInit ==
    /\ \E left \in SUBSET {1} :
         /\ dirs = left /\ nextDir = Cardinality(left)
         /\ mounted \in SUBSET left
    /\ mount_point = None /\ ltfs_proc = "none" /\ polls = 0
    /\ pending = "none"
    /\ process_holder = <<>> /\ mount_point_holder = None
    /\ ltfsTermSent = FALSE /\ ltfsKillSent = FALSE
    /\ unmountTried = FALSE /\ rmdirMounted = FALSE
    /\ visibleAtPoll = FALSE /\ daemonized = FALSE
    /\ earlyExit = FALSE /\ timedOut = FALSE /\ rsyncWaits = 0
    /\ have = [ltfs |-> TRUE, rsync |-> TRUE, mkltfs |-> TRUE, sg |-> TRUE]
    /\ scanned = {} /\ count = None
    /\ fmLeft = FALSE /\ fbTried = FALSE /\ umCalls = 0

(* outcome of one subprocess.run of fusermount -u / umount *)
UmountOutcomes == {"ok", "fail", "timeout", "missing"}

(* the checks at the top of run_ltfs_rsync (401-413), mount_ltfs_only      *)
(* (287-295) and format_ltfs (63-74): shutil.which for each required      *)
(* tool, then nst_to_sg; the first unmet one decides the error             *)
AllThere == [ltfs |-> TRUE, rsync |-> TRUE, mkltfs |-> TRUE, sg |-> TRUE]
HaveFor(f) ==
    CASE f = "ltfs_rsync" ->
            {[AllThere EXCEPT !.ltfs = a, !.rsync = b, !.sg = c] :
                a \in BOOLEAN, b \in BOOLEAN, c \in BOOLEAN}
      [] f = "mount_only" ->
            {[AllThere EXCEPT !.ltfs = a, !.sg = c] :
                a \in BOOLEAN, c \in BOOLEAN}
      [] f = "format_ltfs" ->
            {[AllThere EXCEPT !.mkltfs = a, !.sg = c] :
                a \in BOOLEAN, c \in BOOLEAN}

preflight_without_device_check(f, h) ==
    CASE f = "ltfs_rsync" ->
            IF ~h.ltfs THEN "ltfs_missing"
            ELSE IF ~h.rsync THEN "rsync_missing" ELSE "ok"
      [] f = "mount_only" -> IF ~h.ltfs THEN "ltfs_missing" ELSE "ok"
      [] f = "format_ltfs" -> IF ~h.mkltfs THEN "mkltfs_missing" ELSE "ok"
preflight(f, h) ==
    CASE f = "ltfs_rsync" ->
            IF ~h.ltfs THEN "ltfs_missing"
            ELSE IF ~h.rsync THEN "rsync_missing"
            ELSE IF ~h.sg THEN "device_unresolved" ELSE "ok"
      [] f = "mount_only" ->
            IF ~h.ltfs THEN "ltfs_missing"
            ELSE IF ~h.sg THEN "device_unresolved" ELSE "ok"
      [] f = "format_ltfs" ->
            IF ~h.mkltfs THEN "mkltfs_missing"
            ELSE IF ~h.sg THEN "device_unresolved" ELSE "ok"

(* run_ltfs_rsync 401-416: tools, device alias, source size *)
call_run_ltfs_rsync ==
    /\ pc = "idle"
    /\ op' = "ltfs_rsync"
    /\ \E h \in HaveFor("ltfs_rsync"), du \in DuOutcomes :
         LET t == compute_total_size(du)
             v == preflight("ltfs_rsync", h)
         IN  /\ have' = h
             /\ IF v # "ok" THEN Ended(v) /\ UNCHANGED total_bytes
                ELSE /\ total_bytes' = IF t = 0 THEN None ELSE t
                     /\ pc' = "sweep" /\ UNCHANGED outcome
    /\ UNCHANGED <<uiVars, scanned, count, fmLeft, fbTried, umCalls, ltfsVars,
                   args, purev, progv, lstv, obsv, cmds, procv, listv, logged,
                   cancel_requested, sigv, histv>>

(* mount_ltfs_only 287-295 *)
call_mount_ltfs_only ==
    /\ pc = "idle"
    /\ op' = "mount_only"
    /\ \E h \in HaveFor("mount_only") :
         LET v == preflight("mount_only", h)
         IN  /\ have' = h
             /\ IF v # "ok" THEN Ended(v)
                ELSE pc' = "sweep" /\ UNCHANGED outcome
    /\ UNCHANGED <<uiVars, scanned, count, fmLeft, fbTried, umCalls, ltfsVars,
                   args, purev, progv, lstv, obsv, total_bytes, cmds, procv,
                   listv, logged, cancel_requested, sigv, histv>>

(* format_ltfs 63-74 *)
call_format_ltfs ==
    /\ pc = "idle"
    /\ op' = "format_ltfs"
    /\ \E h \in HaveFor("format_ltfs") :
         LET v == preflight("format_ltfs", h)
         IN  /\ have' = h
             /\ IF v # "ok" THEN Ended(v)
                ELSE pc' = "format_spawn" /\ UNCHANGED outcome
    /\ UNCHANGED <<uiVars, scanned, count, fmLeft, fbTried, umCalls, ltfsVars,
                   args, purev, progv, lstv, obsv, total_bytes, cmds, procv,
                   listv, logged, cancel_requested, sigv, histv>>

(* format_ltfs 85-92: subprocess.Popen(mkltfs -d <sg>) *)
format_spawn ==
    /\ pc = "format_spawn"
    /\ proc' = "running" /\ cmds' = Append(cmds, "mkltfs")
    /\ pc' = "format_read"
    /\ UNCHANGED <<nonSup, op, outcome, args, purev, progv, lstv, obsv,
                   total_bytes, returncode, pipe, emitted, listv, logged,
                   cancel_requested, sigv, histv>>

(* format_ltfs 94-96: for line in proc.stdout: log(line) *)
format_read_line ==
    /\ pc = "format_read" /\ pipe # <<>>
    /\ pipe' = Tail(pipe)
    /\ logged' = Append(logged, Head(pipe))
    /\ UNCHANGED <<nonSup, op, pc, outcome, args, purev, progv, lstv, obsv,
                   total_bytes, cmds, proc, returncode, emitted, listv,
                   cancel_requested, sigv, histv>>

(* format_ltfs 96-104: proc.wait() and the exit-code check *)
format_wait ==
    /\ pc = "format_read" /\ pipe = <<>> /\ proc = "exited"
    /\ Ended(IF returncode # 0 THEN "tool_failed" ELSE "completed")
    /\ UNCHANGED <<nonSup, supRest>>

(* unmount_leftover_ltfs_mounts 204-234: every candidate directory that   *)
(* is mounted gets fusermount -u and, while it is still mounted, umount;   *)
(* a command that is missing or times out is skipped; a directory that is  *)
(* no longer mounted afterwards is counted and removed                     *)
SweepCandidates == dirs \cap mounted
sweep_unmounts(fm, um) == fm = "ok" \/ um = "ok"
sweep_removes_mounted(still_mounted) == TRUE
sweep_removes(still_mounted) == ~still_mounted
unmount_leftover_ltfs_mounts ==
    /\ pc = "sweep"
    /\ \E listable \in BOOLEAN,
          res \in [SweepCandidates -> UmountOutcomes \X UmountOutcomes] :
         LET freed == {d \in SweepCandidates :
                          sweep_unmounts(res[d][1], res[d][2])}
             after == mounted \ freed
             gone  == {d \in SweepCandidates : sweep_removes(d \in after)}
         IN  IF listable
             THEN /\ mounted' = after
                  /\ dirs' = dirs \ gone
                  /\ scanned' = SweepCandidates
                  /\ count' = Cardinality(gone)
             ELSE /\ scanned' = {} /\ count' = 0     \* os.listdir: OSError
                  /\ UNCHANGED <<mounted, dirs>>
    /\ cmds' = Append(cmds, "sweep")
    /\ IF op = "sweep" THEN Ended("returned")
       ELSE pc' = "mkdtemp" /\ UNCHANGED outcome
    /\ UNCHANGED <<uiVars, have, fmLeft, fbTried, umCalls, op, args, purev,
                   progv, lstv, obsv, total_bytes, procv, listv, logged,
                   cancel_requested, sigv, histv, nextDir, ltfsLoc, holders,
                   ltfsSig, ltfsHist>>

(* unmount_leftover_ltfs_mounts called on its own, as the window's check   *)
(* and preparation threads do, possibly again after an earlier sweep       *)
call_unmount_leftover_ltfs_mounts ==
    /\ pc \in {"idle", "done"} /\ op \in {"none", "sweep"}
    /\ Count("sweep") < MaxSweeps
    /\ op' = "sweep" /\ pc' = "sweep" /\ outcome' = "none"
    /\ UNCHANGED <<uiVars, callv, ltfsVars, args, purev, progv, lstv, obsv,
                   total_bytes, cmds, procv, listv, logged, cancel_requested,
                   sigv, histv>>

(* tempfile.mkdtemp(prefix="ltfs_tape_"); Popen(ltfs ...);                 *)
(* process_holder.append(ltfs_proc)                                        *)
mkdtemp_spawn_ltfs ==
    /\ pc = "mkdtemp"
    /\ nextDir' = nextDir + 1
    /\ mount_point' = nextDir + 1
    /\ dirs' = dirs \cup {nextDir + 1}
    /\ cmds' = cmds \o <<"mkdtemp", "ltfs">>
    /\ ltfs_proc' = "running"
    /\ process_holder' = Append(process_holder, <<"ltfs", nextDir + 1>>)
    /\ pc' = "mount_poll"
    /\ UNCHANGED <<uiVars, callv, op, outcome, args, purev, progv, lstv, obsv,
                   total_bytes, procv, listv, logged, cancel_requested, sigv,
                   histv, mounted, polls, pending, mount_point_holder,
                   ltfsSig, ltfsHist>>

(* ---- the ltfs process (environment) ---- *)
(* the mount appears in the mount table *)
ltfs_mounts ==
    /\ ltfs_proc = "running" /\ mount_point \notin mounted
    /\ op # "unmount_ltfs"
    /\ mount_point \in dirs
    /\ mounted' = mounted \cup {mount_point}
    /\ UNCHANGED <<uiVars, callv, supVars, dirs, nextDir, ltfsLoc, holders,
                   ltfsSig, ltfsHist>>

(* the process handle exits: after mounting it has daemonized and the      *)
(* mount stays; without a mount it has failed; after a signal the mount    *)
(* it serves may go with it                                                *)
ltfs_exits ==
    /\ ltfs_proc = "running"
    /\ ltfs_proc' = "exited"
    /\ \E gone \in BOOLEAN :
         mounted' = IF gone /\ (ltfsTermSent \/ ltfsKillSent)
                    THEN mounted \ {mount_point} ELSE mounted
    /\ UNCHANGED <<uiVars, callv, supVars, dirs, nextDir, mount_point, polls,
                   pending, holders, ltfsSig, ltfsHist>>

(* one evaluation of the body of `while time.monotonic() < deadline`:     *)
(* "break", "fail" (raise exited early) or "sleep"                         *)
poll_verdict_exit_is_failure(exited, ismount) ==
    IF exited THEN "fail" ELSE IF ismount THEN "break" ELSE "sleep"
poll_verdict(exited, ismount) ==
    IF exited THEN (IF ismount THEN "break" ELSE "fail")
    ELSE IF ismount THEN "break" ELSE "sleep"

mount_poll ==
    /\ pc = "mount_poll"
    /\ IF polls < MaxPolls
       THEN LET exited  == ltfs_proc = "exited"
                ismount == mount_point \in mounted
                v       == poll_verdict(exited, ismount)
            IN  /\ visibleAtPoll' = (visibleAtPoll \/ ismount)
                /\ daemonized' = (daemonized \/ (ismount /\ exited))
                /\ earlyExit' = (earlyExit \/ (exited /\ ~ismount))
                /\ CASE v = "break" ->
                          pc' = "mount_check" /\ UNCHANGED <<polls, pending>>
                     [] v = "fail" ->
                          /\ pending' = "mount_failed"
                          /\ pc' = "teardown" /\ UNCHANGED polls
                     [] v = "sleep" ->
                          polls' = polls + 1 /\ UNCHANGED <<pc, pending>>
       ELSE /\ pc' = "mount_check"
            /\ UNCHANGED <<polls, pending, visibleAtPoll, daemonized,
                           earlyExit>>
    /\ UNCHANGED <<uiVars, callv, op, outcome, args, purev, progv, lstv, obsv,
                   total_bytes, cmds, procv, listv, logged, cancel_requested,
                   sigv, histv, ltfsEnv, mount_point, ltfs_proc, holders,
                   ltfsSig, unmountTried, rmdirMounted, timedOut, rsyncWaits>>

(* after the loop: `if not os.path.ismount(mount_point)` terminate and     *)
(* wait(timeout=5); else record the mount and (run_ltfs_rsync) spawn rsync *)
mount_check ==
    /\ pc = "mount_check"
    /\ IF mount_point \notin mounted
       THEN /\ timedOut' = TRUE
            /\ ltfsTermSent' = (ltfsTermSent \/ ltfs_proc = "running")
            /\ pc' = "mount_grace"
            /\ UNCHANGED <<mount_point_holder, process_holder, proc, cmds,
                           outcome>>
       ELSE /\ mount_point_holder' = mount_point
            /\ UNCHANGED <<timedOut, ltfsTermSent>>
            /\ IF op = "ltfs_rsync"
               THEN /\ proc' = "running"
                    /\ cmds' = Append(cmds, "rsync")
                    /\ process_holder' =
                          Append(process_holder, <<"rsync", mount_point>>)
                    /\ pc' = "rsync_top" /\ UNCHANGED outcome
               ELSE /\ Ended("completed")
                    /\ UNCHANGED <<proc, cmds, process_holder>>
    /\ UNCHANGED <<uiVars, callv, op, args, purev, progv, lstv, obsv,
                   total_bytes, returncode, pipe, emitted, listv, logged,
                   cancel_requested, sigv, histv, ltfsEnv, ltfsLoc,
                   ltfsKillSent, unmountTried, rmdirMounted, visibleAtPoll,
                   daemonized, earlyExit, rsyncWaits>>

(* ltfs_proc.wait(timeout=5) of the timed-out path: returns, and the       *)
(* mount-timed-out error is raised, or raises TimeoutExpired               *)
mount_grace ==
    /\ pc = "mount_grace"
    /\ pending' = IF ltfs_proc = "running" THEN "raw_TimeoutExpired"
                  ELSE "mount_timeout"
    /\ pc' = "teardown"
    /\ UNCHANGED <<uiVars, callv, supRest, outcome, ltfsEnv, mount_point,
                   ltfs_proc, polls, holders, ltfsSig, ltfsHist>>

(* ---- run_ltfs_rsync 553-611: the read loop ---- *)
(* top of `while True`: the cancel check, before the blocking read *)
rsync_cancel_check ==
    /\ pc = "rsync_top"
    /\ IF cancel_requested
       THEN /\ termSent' = TRUE /\ cancelObserved' = TRUE
            /\ rsyncWaits' = rsyncWaits + 1
            /\ pc' = "grace"
       ELSE /\ pc' = "rsync_read"
            /\ UNCHANGED <<termSent, cancelObserved, rsyncWaits>>
    /\ UNCHANGED <<uiVars, callv, op, outcome, args, purev, progv, lstv, obsv,
                   total_bytes, cmds, procv, listv, logged, cancel_requested,
                   killSent, cancelWhileRunning, outlivedGrace, sinceCancel,
                   gotLine, ltfsEnv, ltfsLoc, holders, ltfsSig, unmountTried,
                   rmdirMounted, visibleAtPoll, daemonized, earlyExit,
                   timedOut>>

(* os.read / stderr.read returned a chunk; its segments are handled *)
rsync_read_chunk ==
    /\ pc = "rsync_read" /\ pipe # <<>>
    /\ pipe' = Tail(pipe)
    /\ logged' = Append(logged, Head(pipe))
    /\ pc' = "rsync_top"
    /\ UNCHANGED <<uiVars, callv, op, outcome, args, purev, progv, lstv, obsv,
                   total_bytes, cmds, proc, returncode, emitted, listv,
                   cancel_requested, sigv, histv, ltfsVars>>

(* empty read with the process gone: break; proc.wait(); inner finally;    *)
(* returncode check; (total, total) update and "completed" notification    *)
rsync_read_eof ==
    /\ pc = "rsync_read" /\ pipe = <<>> /\ proc = "exited"
    /\ rsyncWaits' = rsyncWaits + 1
    /\ pending' = IF returncode # 0 THEN "tool_failed" ELSE "completed"
    /\ pc' = "teardown"
    /\ UNCHANGED <<uiVars, callv, supRest, outcome, ltfsEnv, mount_point,
                   ltfs_proc, polls, holders, ltfsSig, unmountTried,
                   rmdirMounted, visibleAtPoll, daemonized, earlyExit,
                   timedOut>>

(* proc.wait(timeout=10) after terminate(): rsync has exited, the          *)
(* cancelled error is raised                                               *)
rsync_grace_exited ==
    /\ pc = "grace" /\ op = "ltfs_rsync" /\ proc = "exited"
    /\ pending' = "cancelled"
    /\ pc' = "teardown"
    /\ UNCHANGED <<uiVars, callv, supRest, outcome, ltfsEnv, mount_point,
                   ltfs_proc, polls, holders, ltfsSig, ltfsHist>>

(* proc.wait(timeout=10) raises TimeoutExpired: no except clause of        *)
(* run_ltfs_rsync catches it, only the finally blocks run                  *)
rsync_grace_timeout ==
    /\ pc = "grace" /\ op = "ltfs_rsync" /\ proc = "running"
    /\ outlivedGrace' = TRUE
    /\ pending' = "raw_TimeoutExpired"
    /\ pc' = "teardown"
    /\ UNCHANGED <<uiVars, callv, op, outcome, args, purev, progv, lstv, obsv,
                   total_bytes, cmds, procv, listv, logged, cancel_requested,
                   sigv, cancelObserved, cancelWhileRunning, sinceCancel,
                   gotLine, ltfsEnv, mount_point, ltfs_proc, polls, holders,
                   ltfsSig, ltfsHist>>

(* ---- run_ltfs_rsync 528-613: the byte counter and the timer thread ---- *)
(* The call is taken up where rsync has been spawned (the mount is the     *)
(* subject of the actions above): start_time, bytes_ref = [0], the timer   *)
(* thread is started. total_bytes is None when the size is unknown.        *)
progRest_but_outcome ==
    <<op, args, purev, obsv, lstv, cmds, returncode, pipe, listv, logged,
      cancel_requested, sigv, histv, ltfsVars, callv, uiVars>>
progRest == <<progRest_but_outcome>>

rsync_spawned ==
    /\ pc = "idle"
    /\ op' = "ltfs_rsync" /\ pc' = "rsync_read" /\ proc' = "running"
    /\ cmds' = <<"sweep", "mkdtemp", "ltfs", "rsync">>
    /\ \E t \in {None} \cup (1..MaxSize) :
          /\ total_bytes' = t
          /\ ltfs_updates' = << <<"start", 0>> >>        \* 474-475
    /\ bytes_ref' = 0
    /\ timer' = [pc |-> "wait", dest_size |-> 0, stop |-> FALSE]
    /\ UNCHANGED <<outcome, args, purev, obsv, lstv, returncode, pipe, emitted,
                   listv, logged, cancel_requested, sigv, histv, ltfsVars,
                   callv, uiVars, timer_updates>>

(* 535-540: stop_timer.wait(1.0) returns; the thread returns when the      *)
(* event is set or rsync is gone, otherwise it starts measuring            *)
timer_wake ==
    /\ timer.pc = "wait"
    /\ IF timer.stop \/ proc # "running"
       THEN timer' = [timer EXCEPT !.pc = "returned"]
       ELSE /\ Len(timer_updates) < MaxTicks
            /\ timer' = [timer EXCEPT !.pc = "du"]
    /\ UNCHANGED <<progRest, pc, outcome, proc, emitted, total_bytes,
                   bytes_ref, timer_updates, ltfs_updates>>

(* 540: dest_size = _compute_total_size([mount_point], timeout=10), which  *)
(* takes up to 10 s and is 0 on error                                      *)
timer_measured ==
    /\ timer.pc = "du"
    /\ \E d \in 0..(MaxSize + 1) :
          timer' = [timer EXCEPT !.pc = "max", !.dest_size = d]
    /\ UNCHANGED <<progRest, pc, outcome, proc, emitted, total_bytes,
                   bytes_ref, timer_updates, ltfs_updates>>

(* 541-542 *)
timer_max ==
    /\ timer.pc = "max"
    /\ bytes_ref' = IF timer.dest_size > 0 /\ timer.dest_size > bytes_ref
                    THEN timer.dest_size ELSE bytes_ref
    /\ timer' = [timer EXCEPT !.pc = "min"]
    /\ UNCHANGED <<progRest, pc, outcome, proc, emitted, total_bytes,
                   timer_updates, ltfs_updates>>

(* 543-544: the clamp to the known total *)
clamp(b, total) ==
    IF total # None /\ total > 0 /\ total < b THEN total ELSE b
timer_min ==
    /\ timer.pc = "min"
    /\ bytes_ref' = clamp(bytes_ref, total_bytes)
    /\ timer' = [timer EXCEPT !.pc = "emit"]
    /\ UNCHANGED <<progRest, pc, outcome, proc, emitted, total_bytes,
                   timer_updates, ltfs_updates>>

(* 545-546: on_progress_update(bytes_ref[0], total_bytes, elapsed) *)
timer_emit ==
    /\ timer.pc = "emit"
    /\ timer_updates' = Append(timer_updates, bytes_ref)
    /\ ltfs_updates' = Append(ltfs_updates, <<"timer", bytes_ref>>)
    /\ timer' = [timer EXCEPT !.pc = "wait"]
    /\ UNCHANGED <<progRest, pc, outcome, proc, emitted, total_bytes,
                   bytes_ref>>

(* what _parse_rsync_progress2 (175-201) returns for a segment: (None,     *)
(* None), (bytes, pct) or (None, pct); pct is any run of digits            *)
Pcts == {0, 50, 100, 150}
Parsed == {[bytes |-> None, pct |-> None]}
          \cup [bytes : {None} \cup (0..(MaxSize + 1)), pct : Pcts]

(* 577-588: the read loop handles one segment; with a percentage and a     *)
(* known total it stores int(total_bytes * pct / 100), else the parsed     *)
(* byte count, and makes its own progress update                           *)
segment_bytes(b, total, p) ==
    IF p.pct # None /\ total # None /\ total > 0
    THEN (total * p.pct) \div 100
    ELSE IF p.pct # None /\ p.bytes # None THEN p.bytes
    ELSE b
rsync_segment ==
    /\ pc = "rsync_read" /\ emitted < MaxLines
    /\ \E p \in Parsed :
         LET b == segment_bytes(bytes_ref, total_bytes, p)
         IN  /\ bytes_ref' = b
             /\ ltfs_updates' = IF p.pct # None
                                THEN Append(ltfs_updates, <<"loop", b>>)
                                ELSE ltfs_updates
    /\ emitted' = emitted + 1
    /\ UNCHANGED <<progRest, pc, outcome, proc, total_bytes, timer,
                   timer_updates>>

(* 610-613: the loop ends when rsync is gone; stop_timer.set() *)
rsync_loop_end ==
    /\ pc = "rsync_read" /\ proc = "exited" /\ op = "ltfs_rsync"
    /\ timer.pc # "none"
    /\ timer' = [timer EXCEPT !.stop = TRUE]
    /\ pc' = "join"
    /\ UNCHANGED <<progRest, outcome, proc, emitted, total_bytes, bytes_ref,
                   timer_updates, ltfs_updates>>

(* 614: timer_thread.join(timeout=2.0) returns when the thread has         *)
(* returned, or after 2 s while the thread is still measuring              *)
join(t) == t.pc \in {"returned", "du"}
timer_join ==
    /\ pc = "join" /\ join(timer)
    /\ pc' = "verdict"
    /\ UNCHANGED <<progRest, progv, outcome, proc, emitted, total_bytes>>

(* 620-625: the exit code check, then the (total, total) update *)
rsync_verdict ==
    /\ pc = "verdict"
    /\ ltfs_updates' =
          IF returncode = 0 /\ total_bytes # None /\ total_bytes > 0
          THEN Append(ltfs_updates, <<"final", total_bytes>>)
          ELSE ltfs_updates
    /\ pc' = "cleanup"
    /\ UNCHANGED <<progRest, outcome, proc, emitted, total_bytes, bytes_ref,
                   timer, timer_updates>>

(* 626-652: the cleanup (the subject of the actions below), after which    *)
(* the call returns or raises                                              *)
rsync_return ==
    /\ pc = "cleanup"
    /\ ltfs_updates' = Append(ltfs_updates, <<"returned", 0>>)
    /\ Ended(IF returncode # 0 THEN "tool_failed" ELSE "completed")
    /\ UNCHANGED <<progRest_but_outcome, proc, emitted, total_bytes,
                   bytes_ref, timer, timer_updates>>

ProgressNext ==
    \/ rsync_spawned \/ proc_exit
    \/ timer_wake \/ timer_measured \/ timer_max \/ timer_min \/ timer_emit
    \/ rsync_segment \/ rsync_loop_end \/ timer_join \/ rsync_verdict
    \/ rsync_return

(* ---- cleanup: `finally` of run_ltfs_rsync (626-652), `except Exception` *)
(* of mount_ltfs_only (351-378) ---- *)
(* fusermount -u, and umount only when fusermount is not installed;        *)
(* TimeoutExpired of either, or FileNotFoundError of umount, propagates    *)
(* out of the cleanup and replaces the verdict                             *)
UnmountByCommands(fm, um) ==
    IF fm = "missing" THEN um = "ok" ELSE fm = "ok"
CleanupRaises(fm, um) ==
    IF fm = "timeout" THEN "raw_TimeoutExpired"
    ELSE IF fm = "missing" /\ um = "timeout" THEN "raw_TimeoutExpired"
    ELSE IF fm = "missing" /\ um = "missing" THEN "raw_FileNotFoundError"
    ELSE "none"

TeardownCmds(fm, um) ==
    (IF fm = "missing" THEN <<>> ELSE <<"fusermount">>)
    \o (IF fm = "missing" /\ um # "missing" THEN <<"umount">> ELSE <<>>)

teardown_unmount ==
    /\ pc = "teardown"
    /\ mount_point_holder' =
          IF op = "ltfs_rsync" THEN None ELSE mount_point_holder
    /\ IF mount_point # None /\ mount_point \in dirs
       THEN IF mount_point \in mounted
            THEN \E fm \in UmountOutcomes, um \in UmountOutcomes :
                   /\ unmountTried' = TRUE
                   /\ cmds' = cmds \o TeardownCmds(fm, um)
                   /\ fmLeft' = (fm \in {"fail", "timeout"})
                   /\ fbTried' = (fm = "missing")
                   /\ mounted' = IF UnmountByCommands(fm, um)
                                 THEN mounted \ {mount_point} ELSE mounted
                   /\ IF CleanupRaises(fm, um) # "none"
                      THEN Ended(CleanupRaises(fm, um))
                      ELSE pc' = "td_rmdir" /\ UNCHANGED outcome
            ELSE /\ pc' = "td_rmdir"
                 /\ UNCHANGED <<unmountTried, mounted, outcome, cmds, fmLeft,
                                fbTried>>
       ELSE /\ pc' = "td_ltfs"
            /\ UNCHANGED <<unmountTried, mounted, outcome, cmds, fmLeft,
                           fbTried>>
    /\ UNCHANGED <<uiVars, have, scanned, count, umCalls, op, args, purev,
                   progv, lstv, obsv, total_bytes, procv, listv, logged,
                   cancel_requested, sigv, histv, dirs, nextDir, ltfsLoc,
                   process_holder, ltfsSig, rmdirMounted, visibleAtPoll,
                   daemonized, earlyExit, timedOut, rsyncWaits>>

(* os.rmdir(mount_point), whatever the unmount achieved; OSError ignored *)
teardown_rmdir ==
    /\ pc = "td_rmdir"
    /\ rmdirMounted' = (rmdirMounted \/ mount_point \in mounted)
    /\ dirs' = IF mount_point \in mounted THEN dirs ELSE dirs \ {mount_point}
    /\ pc' = "td_ltfs"
    /\ UNCHANGED <<uiVars, callv, supRest, outcome, mounted, nextDir, ltfsLoc,
                   holders, ltfsSig, unmountTried, visibleAtPoll, daemonized,
                   earlyExit, timedOut, rsyncWaits>>

(* if ltfs_proc.poll() is None: terminate(), wait(timeout=5), kill() on    *)
(* TimeoutExpired; mount_ltfs_only then pops its process and re-raises     *)
teardown_ltfs ==
    /\ pc = "td_ltfs"
    /\ IF ltfs_proc = "running"
       THEN \E exits \in BOOLEAN, gone \in BOOLEAN :
              /\ ltfsTermSent' = TRUE
              /\ ltfsKillSent' = (ltfsKillSent \/ ~exits)
              /\ ltfs_proc' = "exited"
              /\ mounted' = IF gone THEN mounted \ {mount_point} ELSE mounted
       ELSE UNCHANGED <<ltfsSig, ltfs_proc, mounted>>
    /\ process_holder' =
          IF op = "mount_only" /\ process_holder # <<>>
             /\ process_holder[Len(process_holder)] = <<"ltfs", mount_point>>
          THEN SubSeq(process_holder, 1, Len(process_holder) - 1)
          ELSE process_holder
    /\ Ended(pending)
    /\ UNCHANGED <<uiVars, callv, supRest, dirs, nextDir, mount_point, polls,
                   pending, mount_point_holder, ltfsHist>>

(* ---- unmount_ltfs 237-272, called with the mount point and the ltfs    *)
(* process that mount_ltfs_only recorded ---- *)
call_unmount_ltfs ==
    /\ pc = "done" /\ op \in {"mount_only", "unmount_ltfs"}
    /\ outcome \in {"completed", "returned"}
    /\ umCalls < 2
    /\ umCalls' = umCalls + 1
    /\ op' = "unmount_ltfs" /\ pc' = "um_cmds" /\ outcome' = "none"
    /\ UNCHANGED <<uiVars, have, scanned, count, fmLeft, fbTried, args, purev,
                   progv, lstv, obsv, total_bytes, cmds, procv, listv, logged,
                   cancel_requested, sigv, histv, ltfsVars>>

(* the unmount commands that run: none when the directory does not exist   *)
(* (the function returns at once) or is not mounted; otherwise fusermount  *)
(* -u, and umount only when fusermount is missing or timed out             *)
UmountPart(um) == IF um = "missing" THEN <<>> ELSE <<"umount">>
um_commands_unguarded(exists, ismount, fm, um) ==
    IF fm \in {"ok", "fail"} THEN <<"fusermount">>
    ELSE IF fm = "timeout" THEN <<"fusermount">> \o UmountPart(um)
    ELSE UmountPart(um)
um_commands(exists, ismount, fm, um) ==
    IF ~exists \/ ~ismount THEN <<>>
    ELSE IF fm \in {"ok", "fail"} THEN <<"fusermount">>
    ELSE IF fm = "timeout" THEN <<"fusermount">> \o UmountPart(um)
    ELSE UmountPart(um)
unmount_ltfs_unmounts(fm, um) ==
    fm = "ok" \/ (fm \in {"timeout", "missing"} /\ um = "ok")

unmount_ltfs_commands ==
    /\ pc = "um_cmds"
    /\ \E fm \in UmountOutcomes, um \in UmountOutcomes :
         LET exists  == mount_point \in dirs
             ismount == mount_point \in mounted
         IN  /\ cmds' = cmds \o um_commands(exists, ismount, fm, um)
             /\ IF exists /\ ismount
                THEN /\ mounted' = IF unmount_ltfs_unmounts(fm, um)
                                   THEN mounted \ {mount_point} ELSE mounted
                     /\ fmLeft' = (fm \in {"fail", "timeout"})
                     /\ fbTried' = (fm \in {"timeout", "missing"})
                ELSE UNCHANGED <<mounted, fmLeft, fbTried>>
             /\ IF exists THEN pc' = "um_term" /\ UNCHANGED outcome
                ELSE Ended("returned")
    /\ UNCHANGED <<uiVars, have, scanned, count, umCalls, op, args, purev,
                   progv, lstv, obsv, total_bytes, procv, listv, logged,
                   cancel_requested, sigv, histv, dirs, nextDir, ltfsLoc,
                   holders, ltfsSig, ltfsHist>>

(* if ltfs_proc.poll() is None: terminate(), wait(timeout=5), kill() *)
unmount_ltfs_terminate ==
    /\ pc = "um_term"
    /\ IF ltfs_proc = "running"
       THEN \E exits \in BOOLEAN, gone \in BOOLEAN :
              /\ ltfsTermSent' = TRUE
              /\ ltfsKillSent' = (ltfsKillSent \/ ~exits)
              /\ ltfs_proc' = "exited"
              /\ mounted' = IF gone THEN mounted \ {mount_point} ELSE mounted
       ELSE UNCHANGED <<ltfsSig, ltfs_proc, mounted>>
    /\ pc' = "um_rmdir"
    /\ UNCHANGED <<uiVars, callv, supRest, outcome, dirs, nextDir, mount_point,
                   polls, pending, holders, ltfsHist>>

(* os.rmdir only if the directory exists and is not mounted *)
unmount_ltfs_rmdir ==
    /\ pc = "um_rmdir"
    /\ dirs' = IF mount_point \in dirs /\ mount_point \notin mounted
               THEN dirs \ {mount_point} ELSE dirs
    /\ Ended("returned")
    /\ UNCHANGED <<uiVars, callv, supRest, mounted, nextDir, ltfsLoc, holders,
                   ltfsSig, ltfsHist>>

(* ======================= MainWindow: ui/app.py ========================= *)
Slots == {"backup", "restore", "erase", "format_ltfs", "browse", "ltfs_rsync",
          "ltfs_mount"}
Buttons == {"start", "start_restore", "browse", "erase", "format_ltfs",
            "ltfs_rsync", "mount_ltfs", "unmount_ltfs", "check_ltfs",
            "exit_ltfs_mode", "cancel"}
CancelFlags == {"backup", "restore", "browse", "ltfs_rsync"}
ThreadIds == 1..MaxThreads
Free == [kind |-> "free", phase |-> "free", mp |-> None]

NotDestroyed == [destroyed |-> FALSE, alive |-> {}, signalled |-> <<>>,
                 quit |-> FALSE]

(* threading.Thread(target=...).start(): the lowest unused thread id *)
FreeIds(t) == {i \in ThreadIds : t[i].kind = "free"}
NewId(t) == CHOOSE i \in FreeIds(t) : \A j \in FreeIds(t) : i <= j
Started(t, k, ph) ==
    [t EXCEPT ![NewId(t)] = [kind |-> k, phase |-> ph, mp |-> None]]

(* a finished thread object is dropped once no attribute refers to it *)
Reap(t, s) ==
    [i \in ThreadIds |->
        IF t[i].phase = "dead" /\ \A k \in Slots : s[k] # i THEN Free
        ELSE t[i]]

(* _update_start_sensitivity 509-520: references to dead threads are       *)
(* cleared, except _ltfs_mount_thread                                      *)
ClearDead(s, t) ==
    [k \in Slots |->
        IF k # "ltfs_mount" /\ s[k] # 0 /\ t[s[k]].phase = "dead" THEN 0
        ELSE s[k]]
any_busy(s) == \E k \in Slots : s[k] # 0

(* 531-574: a device is selected, the directory list is not empty, a       *)
(* restore destination is chosen and ltfs and rsync are installed          *)
Sensitivity(old, busy, mode, mp, standalone) ==
    IF mode
    THEN [b \in Buttons |->
            CASE b \in {"start", "erase", "format_ltfs", "browse",
                        "start_restore"}  -> FALSE
              [] b = "ltfs_rsync"         -> ~busy
              [] b = "mount_ltfs"         -> ~busy /\ mp = None
              [] b = "unmount_ltfs"       -> ~busy /\ standalone /\ mp # None
              [] b = "check_ltfs"         -> ~busy
              [] b = "exit_ltfs_mode"     -> ~busy
              [] b = "cancel"             -> busy]
    ELSE [b \in Buttons |->
            CASE b \in {"start", "start_restore", "browse", "erase",
                        "format_ltfs", "check_ltfs", "ltfs_rsync"} -> ~busy
              [] b = "cancel"             -> busy
              [] OTHER                    -> old[b]]

(* the whole of _update_start_sensitivity, given the attribute values the  *)
(* calling handler has produced                                            *)
update_start_sensitivity(s, t, mode, mp, standalone) ==
    LET s1 == ClearDead(s, t) IN
    /\ slot' = s1
    /\ thr' = Reap(t, s1)
    /\ ltfs_mode_row' = mode
    /\ sens' = Sensitivity(sens, any_busy(s1), mode, mp, standalone)

(* state after MainWindow.__init__ and show_all, with a device selected,   *)
(* a directory added and a restore destination chosen                      *)
UIInit ==
    /\ thr = [i \in ThreadIds |-> Free]
    /\ slot = [k \in Slots |-> 0]
    /\ idle = <<[fn |-> "maybe_check_ltfs_after_show", arg |-> FALSE]>>
    /\ sens = [b \in Buttons |-> b # "cancel"]
    /\ ltfs_mode_row = TRUE /\ main_box = FALSE
    /\ ltfs_mode = FALSE /\ ltfs_standalone_mount = FALSE
    /\ cancel = [k \in CancelFlags |-> FALSE]
    /\ procs = {}
    /\ shutdown = NotDestroyed

(* a click reaches its handler only on a sensitive, shown button of a     *)
(* window that exists                                                      *)
Clickable(b) ==
    /\ ~shutdown.destroyed
    /\ main_box /\ sens[b]
    /\ (b \in {"mount_ltfs", "unmount_ltfs", "exit_ltfs_mode"} => ltfs_mode_row)

Queued(fn, arg) == Append(idle, [fn |-> fn, arg |-> arg])
CanQueue == Len(idle) < MaxIdle
(* the main loop runs until the application quits *)
Next_idle(fn) == ~shutdown.destroyed /\ idle # <<>> /\ Head(idle).fn = fn

(* ---- click handlers ---- *)
(* _on_start_backup: the flag is reset and the pre_check thread is started *)
(* without being stored in any attribute                                   *)
on_start_backup ==
    /\ Clickable("start") /\ FreeIds(thr) # {}
    /\ cancel' = [cancel EXCEPT !["backup"] = FALSE]
    /\ update_start_sensitivity(slot, Started(thr, "pre_check", "sweep"),
                                ltfs_mode, mount_point_holder,
                                ltfs_standalone_mount)
    /\ UNCHANGED <<engineVars, ltfsEnv, holders, idle, main_box, ltfs_mode,
                   ltfs_standalone_mount, procs>>

(* the handlers that store their thread: _on_start_restore,                *)
(* _on_browse_tape, _on_format_ltfs                                        *)
StartRegistered(k, ph) ==
    /\ FreeIds(thr) # {}
    /\ update_start_sensitivity([slot EXCEPT ![k] = NewId(thr)],
                                Started(thr, k, ph), ltfs_mode,
                                mount_point_holder, ltfs_standalone_mount)

on_start_restore ==
    /\ Clickable("start_restore")
    /\ cancel' = [cancel EXCEPT !["restore"] = FALSE]
    /\ StartRegistered("restore", "run")
    /\ UNCHANGED <<engineVars, ltfsEnv, holders, idle, main_box, ltfs_mode,
                   ltfs_standalone_mount, procs>>

on_browse_tape ==
    /\ Clickable("browse")
    /\ cancel' = [cancel EXCEPT !["browse"] = FALSE]
    /\ StartRegistered("browse", "run")
    /\ UNCHANGED <<engineVars, ltfsEnv, holders, idle, main_box, ltfs_mode,
                   ltfs_standalone_mount, procs>>

(* _on_erase: nothing happens unless the dialog is answered OK *)
on_erase ==
    /\ Clickable("erase")
    /\ \E response \in {"OK", "CANCEL"} :
         IF response = "OK" THEN StartRegistered("erase", "run")
         ELSE UNCHANGED <<thr, slot, sens, ltfs_mode_row>>
    /\ UNCHANGED <<engineVars, ltfsEnv, holders, idle, main_box, ltfs_mode,
                   ltfs_standalone_mount, cancel, procs>>

on_format_ltfs ==
    /\ Clickable("format_ltfs")
    /\ StartRegistered("format_ltfs", "sweep")
    /\ UNCHANGED <<engineVars, ltfsEnv, holders, idle, main_box, ltfs_mode,
                   ltfs_standalone_mount, cancel, procs>>

(* _on_check_ltfs: the thread is not stored and the buttons are not        *)
(* refreshed                                                               *)
on_check_ltfs ==
    /\ Clickable("check_ltfs") /\ FreeIds(thr) # {}
    /\ thr' = Started(thr, "check", "sweep")
    /\ UNCHANGED <<engineVars, ltfsEnv, holders, slot, idle, sens,
                   ltfs_mode_row, main_box, ltfs_mode, ltfs_standalone_mount,
                   cancel, procs>>

on_exit_ltfs_mode ==
    /\ Clickable("exit_ltfs_mode")
    /\ ltfs_mode' = FALSE
    /\ update_start_sensitivity(slot, thr, FALSE, mount_point_holder,
                                ltfs_standalone_mount)
    /\ UNCHANGED <<engineVars, ltfsEnv, holders, idle, main_box,
                   ltfs_standalone_mount, cancel, procs>>

(* _on_cancel_operation: the first stored thread in the order backup,      *)
(* restore, Backup to LTFS gets its flag set                               *)
on_cancel_operation ==
    /\ Clickable("cancel")
    /\ cancel' = IF slot["backup"] # 0
                 THEN [cancel EXCEPT !["backup"] = TRUE]
                 ELSE IF slot["restore"] # 0
                 THEN [cancel EXCEPT !["restore"] = TRUE]
                 ELSE IF slot["ltfs_rsync"] # 0
                 THEN [cancel EXCEPT !["ltfs_rsync"] = TRUE]
                 ELSE cancel
    /\ UNCHANGED <<engineVars, ltfsEnv, holders, thr, slot, idle, sens,
                   ltfs_mode_row, main_box, ltfs_mode, ltfs_standalone_mount,
                   procs>>

(* ---- callbacks run by the main loop, in the order they were queued ---- *)
(* _maybe_check_ltfs_after_show *)
maybe_check_ltfs_after_show ==
    /\ Next_idle("maybe_check_ltfs_after_show")
    /\ IF ltfs_mode \/ any_busy(slot)
       THEN /\ idle' = Tail(idle)
            /\ main_box' = TRUE
            /\ update_start_sensitivity(slot, thr, ltfs_mode,
                                        mount_point_holder,
                                        ltfs_standalone_mount)
       ELSE /\ idle' = Append(Tail(idle),
                              [fn |-> "run_ltfs_check_if_needed", arg |-> FALSE])
            /\ UNCHANGED <<main_box, thr, slot, sens, ltfs_mode_row>>
    /\ UNCHANGED <<engineVars, ltfsEnv, holders, ltfs_mode,
                   ltfs_standalone_mount, cancel, procs>>

(* _run_ltfs_check_if_needed: the check thread is not stored *)
run_ltfs_check_if_needed ==
    /\ Next_idle("run_ltfs_check_if_needed")
    /\ idle' = Tail(idle)
    /\ IF ltfs_mode \/ any_busy(slot)
       THEN UNCHANGED thr
       ELSE FreeIds(thr) # {} /\ thr' = Started(thr, "check", "sweep")
    /\ UNCHANGED <<engineVars, ltfsEnv, holders, slot, sens, ltfs_mode_row,
                   main_box, ltfs_mode, ltfs_standalone_mount, cancel, procs>>

(* _on_ltfs_check_done, also reached through `completion` of               *)
(* _on_check_ltfs: the window becomes usable; LTFS mode on answer YES      *)
on_ltfs_check_done ==
    /\ Next_idle("on_ltfs_check_done")
    /\ idle' = Tail(idle)
    /\ main_box' = TRUE
    /\ \E response \in {"YES", "NO"} :
         LET m == ltfs_mode \/ (Head(idle).arg /\ response = "YES") IN
         /\ ltfs_mode' = m
         /\ update_start_sensitivity(slot, thr, m, mount_point_holder,
                                     ltfs_standalone_mount)
    /\ UNCHANGED <<engineVars, ltfsEnv, holders, ltfs_standalone_mount, cancel,
                   procs>>

(* `continuation` of _on_start_backup: unless the user declines in the     *)
(* LTFS warning dialog, the backup thread is created, stored and started   *)
continuation ==
    /\ Next_idle("continuation")
    /\ idle' = Tail(idle)
    /\ \E response \in {"YES", "CANCEL"} :
         IF Head(idle).arg /\ response # "YES"
         THEN update_start_sensitivity(slot, thr, ltfs_mode,
                                       mount_point_holder,
                                       ltfs_standalone_mount)
         ELSE StartRegistered("backup", "run")
    /\ UNCHANGED <<engineVars, ltfsEnv, holders, main_box, ltfs_mode,
                   ltfs_standalone_mount, cancel, procs>>

(* _backup_finished, _restore_finished, _browse_finished, _erase_finished, *)
(* _format_ltfs_finished, _ltfs_rsync_finished                             *)
FinishedFn(k) ==
    CASE k = "backup"      -> "backup_finished"
      [] k = "restore"     -> "restore_finished"
      [] k = "browse"      -> "browse_finished"
      [] k = "erase"       -> "erase_finished"
      [] k = "format_ltfs" -> "format_ltfs_finished"
      [] k = "ltfs_rsync"  -> "ltfs_rsync_finished"
      [] k = "ltfs_mount"  -> "ltfs_mount_finished"
task_finished ==
    \E k \in Slots \ {"ltfs_mount"} :
       /\ Next_idle(FinishedFn(k))
       /\ idle' = Tail(idle)
       /\ update_start_sensitivity([slot EXCEPT ![k] = 0], thr, ltfs_mode,
                                   mount_point_holder, ltfs_standalone_mount)
       /\ UNCHANGED <<engineVars, ltfsEnv, holders, main_box, ltfs_mode,
                      ltfs_standalone_mount, cancel, procs>>

(* _ltfs_mount_finished: without an error the session is marked standalone *)
ltfs_mount_finished ==
    /\ Next_idle(FinishedFn("ltfs_mount"))
    /\ idle' = Tail(idle)
    /\ LET st == ltfs_standalone_mount \/ ~Head(idle).arg IN
       /\ ltfs_standalone_mount' = st
       /\ update_start_sensitivity([slot EXCEPT !["ltfs_mount"] = 0], thr,
                                   ltfs_mode, mount_point_holder, st)
    /\ UNCHANGED <<engineVars, ltfsEnv, holders, main_box, ltfs_mode, cancel,
                   procs>>

(* ---- worker threads ---- *)
(* daemon threads: they end with the application *)
Alive(i, ph) == ~shutdown.destroyed /\ thr[i].phase = ph
Dies(i) == Reap([thr EXCEPT ![i].phase = "dead"], slot)

(* run_backup, run_restore, list_tape_contents, erase, format_ltfs +       *)
(* rewind: the worker ends and queues its finished callback (the error it  *)
(* passes is only logged)                                                  *)
worker_finish ==
    \E i \in ThreadIds :
       /\ Alive(i, "run") /\ CanQueue
       /\ idle' = Queued(FinishedFn(thr[i].kind), FALSE)
       /\ thr' = Dies(i)
       /\ UNCHANGED <<engineVars, ltfsEnv, holders, slot, sens, ltfs_mode_row,
                      main_box, ltfs_mode, ltfs_standalone_mount, cancel,
                      procs>>

(* tape_has_ltfs at the end of pre_check / check: the result is queued     *)
thread_detect ==
    \E i \in ThreadIds, has_ltfs \in BOOLEAN :
       /\ Alive(i, "detect") /\ CanQueue
       /\ idle' = Queued(IF thr[i].kind = "pre_check" THEN "continuation"
                         ELSE "on_ltfs_check_done", has_ltfs)
       /\ thr' = Dies(i)
       /\ UNCHANGED <<engineVars, ltfsEnv, holders, slot, sens, ltfs_mode_row,
                      main_box, ltfs_mode, ltfs_standalone_mount, cancel,
                      procs>>

(* ---- LTFS sessions of the window ---- *)
(* unmount_ltfs(mount_point, ltfs_proc) called from a handler: the unmount *)
(* commands work or not; the given process is terminated if running, and   *)
(* the mount it serves may go with it; the directory is removed only when  *)
(* it is no longer mounted                                                 *)
unmount_ltfs(mp, p) ==
    IF mp \notin dirs THEN UNCHANGED <<dirs, mounted, nextDir, procs>>
    ELSE \E unmounted \in BOOLEAN, gone \in BOOLEAN :
           LET m1 == IF unmounted THEN mounted \ {mp} ELSE mounted
               m2 == IF p \in procs /\ gone THEN m1 \ {p[2]}
                     ELSE m1
           IN  /\ mounted' = m2
               /\ procs' = (procs \ {p}) \
                           (IF mp \in mounted /\ unmounted
                            THEN {<<"ltfs", mp>>} ELSE {})
               /\ dirs' = IF mp \in m2 THEN dirs ELSE dirs \ {mp}
               /\ UNCHANGED nextDir

(* holder[0] if holder else None *)
NoProc == <<"none", None>>
FirstOf(holder) == IF holder = <<>> THEN NoProc ELSE holder[1]

(* _on_start_ltfs_rsync: a standalone session is released first *)
on_start_ltfs_rsync ==
    /\ Clickable("ltfs_rsync") /\ FreeIds(thr) # {}
    /\ IF ltfs_standalone_mount /\ mount_point_holder # None
       THEN /\ unmount_ltfs(mount_point_holder, FirstOf(process_holder))
            /\ process_holder' = <<>>
       ELSE UNCHANGED <<ltfsEnv, procs, process_holder>>
    /\ LET released == ltfs_standalone_mount /\ mount_point_holder # None
           mp == IF released THEN None ELSE mount_point_holder
           st == IF released THEN FALSE ELSE ltfs_standalone_mount
       IN  /\ mount_point_holder' = mp
           /\ ltfs_standalone_mount' = st
           /\ update_start_sensitivity(
                 [slot EXCEPT !["ltfs_rsync"] = NewId(thr)],
                 Started(thr, "ltfs_rsync", "clear"), ltfs_mode, mp, st)
    /\ cancel' = [cancel EXCEPT !["ltfs_rsync"] = FALSE]
    /\ UNCHANGED <<engineVars, idle, main_box, ltfs_mode>>

on_mount_ltfs ==
    /\ Clickable("mount_ltfs")
    /\ StartRegistered("ltfs_mount", "sweep")
    /\ UNCHANGED <<engineVars, ltfsEnv, holders, idle, main_box, ltfs_mode,
                   ltfs_standalone_mount, cancel, procs>>

(* _on_unmount_ltfs: pointer and flag are cleared whatever unmount_ltfs    *)
(* achieved                                                                *)
on_unmount_ltfs ==
    /\ Clickable("unmount_ltfs")
    /\ IF mount_point_holder = None
       THEN UNCHANGED <<ltfsEnv, procs, holders, ltfs_standalone_mount, thr,
                        slot, sens, ltfs_mode_row>>
       ELSE /\ unmount_ltfs(mount_point_holder, FirstOf(process_holder))
            /\ mount_point_holder' = None
            /\ ltfs_standalone_mount' = FALSE
            /\ process_holder' = IF process_holder = <<>> THEN <<>>
                                 ELSE Tail(process_holder)
            /\ update_start_sensitivity(slot, thr, ltfs_mode, None, FALSE)
    /\ UNCHANGED <<engineVars, idle, main_box, ltfs_mode, cancel>>

(* unmount_leftover_ltfs_mounts at the start of pre_check, check,          *)
(* _run_format_ltfs, mount_ltfs_only and run_ltfs_rsync                    *)
AfterSweep(k) ==
    CASE k \in {"pre_check", "check"}       -> "detect"
      [] k = "format_ltfs"                  -> "run"
      [] k \in {"ltfs_mount", "ltfs_rsync"} -> "mkdtemp"
thread_sweep ==
    \E i \in ThreadIds :
       /\ Alive(i, "sweep")
       /\ \E freed \in SUBSET SweepCandidates :
            /\ mounted' = mounted \ freed
            /\ dirs' = dirs \ freed
            /\ procs' = procs \ {<<"ltfs", d>> : d \in freed}
       /\ thr' = [thr EXCEPT ![i].phase = AfterSweep(thr[i].kind)]
       /\ UNCHANGED <<engineVars, nextDir, holders, slot, idle, sens,
                      ltfs_mode_row, main_box, ltfs_mode,
                      ltfs_standalone_mount, cancel>>

(* `run` of _on_start_ltfs_rsync: the process holder is emptied first *)
thread_clear_holder ==
    \E i \in ThreadIds :
       /\ Alive(i, "clear")
       /\ process_holder' = <<>>
       /\ thr' = [thr EXCEPT ![i].phase = "sweep"]
       /\ UNCHANGED <<engineVars, ltfsEnv, mount_point_holder, slot, idle,
                      sens, ltfs_mode_row, main_box, ltfs_mode,
                      ltfs_standalone_mount, cancel, procs>>

(* mkdtemp, Popen(ltfs), process_holder.append(ltfs_proc) *)
thread_mkdtemp ==
    \E i \in ThreadIds :
       /\ Alive(i, "mkdtemp") /\ nextDir < MaxDirs
       /\ nextDir' = nextDir + 1
       /\ dirs' = dirs \cup {nextDir + 1}
       /\ procs' = procs \cup {<<"ltfs", nextDir + 1>>}
       /\ process_holder' = Append(process_holder, <<"ltfs", nextDir + 1>>)
       /\ thr' = [thr EXCEPT ![i].phase = "mounting", ![i].mp = nextDir + 1]
       /\ UNCHANGED <<engineVars, mounted, mount_point_holder, slot, idle,
                      sens, ltfs_mode_row, main_box, ltfs_mode,
                      ltfs_standalone_mount, cancel>>

(* the mount became visible before the deadline (ltfs still running or    *)
(* daemonized): holder[0] is set; mount_ltfs_only returns, run_ltfs_rsync  *)
(* spawns rsync and appends it to the process holder                       *)
thread_mounted ==
    \E i \in ThreadIds, daemon \in BOOLEAN :
       LET d == thr[i].mp
           p == IF daemon THEN procs \ {<<"ltfs", d>>} ELSE procs
       IN
       /\ Alive(i, "mounting") /\ d \in dirs /\ CanQueue
       /\ mounted' = mounted \cup {d}
       /\ mount_point_holder' = d
       /\ IF thr[i].kind = "ltfs_mount"
          THEN /\ procs' = p
               /\ idle' = Queued(FinishedFn("ltfs_mount"), FALSE)
               /\ thr' = Dies(i)
               /\ UNCHANGED process_holder
          ELSE /\ procs' = p \cup {<<"rsync", d>>}
               /\ process_holder' = Append(process_holder, <<"rsync", d>>)
               /\ thr' = [thr EXCEPT ![i].phase = "rsync"]
               /\ UNCHANGED idle
       /\ UNCHANGED <<engineVars, dirs, nextDir, slot, sens, ltfs_mode_row,
                      main_box, ltfs_mode, ltfs_standalone_mount, cancel>>

(* ltfs exited early or the deadline passed: mount_ltfs_only cleans up     *)
(* (rmdir, terminate, pop) and raises; run_ltfs_rsync goes to its finally  *)
thread_mount_failed ==
    \E i \in ThreadIds :
       LET d == thr[i].mp IN
       /\ Alive(i, "mounting") /\ d \notin mounted /\ CanQueue
       /\ IF thr[i].kind = "ltfs_mount"
          THEN /\ dirs' = dirs \ {d}
               /\ procs' = procs \ {<<"ltfs", d>>}
               /\ process_holder' =
                     IF process_holder # <<>>
                        /\ process_holder[Len(process_holder)] = <<"ltfs", d>>
                     THEN SubSeq(process_holder, 1, Len(process_holder) - 1)
                     ELSE process_holder
               /\ idle' = Queued(FinishedFn("ltfs_mount"), TRUE)
               /\ thr' = Dies(i)
          ELSE /\ thr' = [thr EXCEPT ![i].phase = "teardown"]
               /\ UNCHANGED <<dirs, procs, process_holder, idle>>
       /\ UNCHANGED <<engineVars, mounted, nextDir, mount_point_holder, slot,
                      sens, ltfs_mode_row, main_box, ltfs_mode,
                      ltfs_standalone_mount, cancel>>

(* the rsync read loop ends: rsync exited, or the cancel flag was seen *)
thread_rsync_done ==
    \E i \in ThreadIds :
       /\ Alive(i, "rsync")
       /\ procs' = procs \ {<<"rsync", thr[i].mp>>}
       /\ thr' = [thr EXCEPT ![i].phase = "teardown"]
       /\ UNCHANGED <<engineVars, ltfsEnv, holders, slot, idle, sens,
                      ltfs_mode_row, main_box, ltfs_mode,
                      ltfs_standalone_mount, cancel>>

(* finally of run_ltfs_rsync, then `run` queues _ltfs_rsync_finished:      *)
(* holder[0] = None; unmount if mounted ("raise": the command timed out    *)
(* and the rest of the cleanup is skipped); rmdir; terminate ltfs          *)
thread_teardown ==
    \E i \in ThreadIds, r \in {"ok", "fail", "raise"}, gone \in BOOLEAN :
       LET d   == thr[i].mp
           m1  == IF r = "ok" THEN mounted \ {d} ELSE mounted
           cut == d \in dirs /\ d \in mounted /\ r = "raise"
           m2  == IF ~cut /\ <<"ltfs", d>> \in procs /\ gone THEN m1 \ {d}
                  ELSE m1
       IN
       /\ Alive(i, "teardown") /\ CanQueue
       /\ mount_point_holder' = None
       /\ mounted' = m2
       /\ dirs' = IF cut \/ d \in m1 THEN dirs ELSE dirs \ {d}
       /\ procs' = IF cut THEN procs ELSE procs \ {<<"ltfs", d>>}
       /\ idle' = Queued(FinishedFn("ltfs_rsync"), FALSE)
       /\ thr' = Dies(i)
       /\ UNCHANGED <<engineVars, nextDir, process_holder, slot, sens,
                      ltfs_mode_row, main_box, ltfs_mode,
                      ltfs_standalone_mount, cancel>>

(* ---- _on_destroy 384-416 ---- *)
(* 405-411: for proc in reversed(holder): terminate it if it is running    *)
(* and wait 5 s; TimeoutExpired is not among the exceptions caught, so a   *)
(* process that outlives the wait ends the handler there                   *)
RECURSIVE terminate_reversed(_, _, _)
terminate_reversed(holder, alive, hang) ==
    IF holder = <<>> THEN [sig |-> <<>>, aborted |-> FALSE]
    ELSE LET p    == holder[Len(holder)]
             rest == SubSeq(holder, 1, Len(holder) - 1)
         IN  IF p \notin alive THEN terminate_reversed(rest, alive, hang)
             ELSE IF p \in hang THEN [sig |-> <<p>>, aborted |-> TRUE]
             ELSE LET w == terminate_reversed(rest, alive, hang)
                  IN  [sig |-> <<p>> \o w.sig, aborted |-> w.aborted]

(* workers of the tar tasks, which may have a tar child running *)
TarThreads ==
    {i \in DOMAIN thr : thr[i].kind \in {"backup", "restore", "browse"}
                        /\ thr[i].phase = "run"}

(* the unmount commands run only when a mount point is recorded *)
UnmountRuns ==
    IF mount_point_holder = None THEN {"ok"} ELSE UmountOutcomes

(* the whole handler: flag; fusermount -u, with umount as the fallback     *)
(* when it is missing or times out (a missing umount raises               *)
(* FileNotFoundError out of the handler); the terminate loop; app.quit().  *)
(* Nothing of the window runs after it.                                    *)
on_destroy ==
    /\ ~shutdown.destroyed
    /\ \E fm \in UnmountRuns, um \in UnmountRuns,
          hang \in SUBSET procs, tars \in SUBSET TarThreads :
         LET mp == mount_point_holder
             fallback == fm \in {"timeout", "missing"}
             raises == mp # None /\ fallback /\ um = "missing"
             unmounted == /\ mp # None /\ mp \in mounted
                          /\ (fm = "ok" \/ (fallback /\ um = "ok"))
             alive == IF unmounted THEN procs \ {<<"ltfs", mp>>} ELSE procs
             w == IF raises THEN [sig |-> <<>>, aborted |-> TRUE]
                  ELSE terminate_reversed(process_holder, alive, hang)
             exited == {w.sig[j] : j \in 1..Len(w.sig)} \ hang
         IN  /\ mounted' = IF unmounted THEN mounted \ {mp} ELSE mounted
             /\ procs' = alive \ exited
             /\ shutdown' = [destroyed |-> TRUE,
                             alive |-> alive \cup {<<"tar", i>> : i \in tars},
                             signalled |-> w.sig,
                             quit |-> ~w.aborted]
    /\ cancel' = [cancel EXCEPT !["ltfs_rsync"] = TRUE]
    /\ UNCHANGED <<engineState, dirs, nextDir, holders, thr, slot, idle, sens,
                   ltfs_mode_row, main_box, ltfs_mode, ltfs_standalone_mount>>

(* callbacks and thread steps common to every use of the window *)
UICommon ==
    \/ maybe_check_ltfs_after_show \/ run_ltfs_check_if_needed
    \/ on_ltfs_check_done \/ task_finished
    \/ thread_detect \/ thread_sweep
    \/ on_check_ltfs \/ on_exit_ltfs_mode
    \/ on_destroy

(* the tar tasks and the tape preparation tasks *)
UINext ==
    \/ UICommon
    \/ on_start_backup \/ on_start_restore \/ on_browse_tape \/ on_erase
    \/ on_format_ltfs \/ on_cancel_operation
    \/ continuation \/ worker_finish

(* the LTFS sessions: Mount LTFS, Unmount LTFS, Backup to LTFS *)
SessionNext ==
    \/ UICommon
    \/ on_start_ltfs_rsync \/ on_mount_ltfs \/ on_unmount_ltfs
    \/ ltfs_mount_finished
    \/ thread_clear_holder \/ thread_mkdtemp \/ thread_mounted
    \/ thread_mount_failed \/ thread_rsync_done \/ thread_teardown

SupNext ==
    \/ call_run_backup \/ call_run_restore \/ call_list_tape_contents
    \/ run_backup_precheck \/ rewind \/ forward_space_files \/ spawn_tar
    \/ proc_emit \/ proc_exit \/ request_cancel \/ poll_tick
    \/ read_line \/ read_eof \/ wait_exit \/ grace_exited \/ grace_timeout
    \/ reader \/ list_get \/ list_poll_timeout
    \/ call_erase \/ erase_spawn \/ read_stdout \/ erase_wait_exited
    \/ erase_deadline \/ erase_finish

LtfsNext ==
    \/ call_run_ltfs_rsync \/ call_mount_ltfs_only \/ call_format_ltfs
    \/ format_spawn \/ format_read_line \/ format_wait
    \/ unmount_leftover_ltfs_mounts \/ mkdtemp_spawn_ltfs
    \/ ltfs_mounts \/ ltfs_exits \/ mount_poll \/ mount_check \/ mount_grace
    \/ proc_emit \/ proc_exit \/ request_cancel \/ poll_tick
    \/ rsync_cancel_check \/ rsync_read_chunk \/ rsync_read_eof
    \/ rsync_grace_exited \/ rsync_grace_timeout
    \/ teardown_unmount \/ teardown_rmdir \/ teardown_ltfs
    \/ call_unmount_ltfs \/ unmount_ltfs_commands \/ unmount_ltfs_terminate
    \/ unmount_ltfs_rmdir

(* the archive functions: run_backup, run_restore, list_tape_contents *)
LtfsIdle ==
    /\ dirs = {} /\ mounted = {} /\ nextDir = 0
    /\ mount_point = None /\ ltfs_proc = "none" /\ polls = 0
    /\ pending = "none"
    /\ process_holder = <<>> /\ mount_point_holder = None
    /\ ltfsTermSent = FALSE /\ ltfsKillSent = FALSE
    /\ unmountTried = FALSE /\ rmdirMounted = FALSE
    /\ visibleAtPoll = FALSE /\ daemonized = FALSE
    /\ earlyExit = FALSE /\ timedOut = FALSE /\ rsyncWaits = 0
    /\ have = [ltfs |-> TRUE, rsync |-> TRUE, mkltfs |-> TRUE, sg |-> TRUE]
    /\ scanned = {} /\ count = None
    /\ fmLeft = FALSE /\ fbTried = FALSE /\ umCalls = 0

(* the window is not part of the run *)
UIIdle ==
    /\ thr = <<>> /\ slot = <<>> /\ idle = <<>> /\ sens = <<>>
    /\ ltfs_mode_row = FALSE /\ main_box = FALSE /\ ltfs_mode = FALSE
    /\ ltfs_standalone_mount = FALSE /\ cancel = <<>> /\ procs = {}
    /\ shutdown = NotDestroyed

Init == SupInit /\ LtfsIdle /\ UIIdle
Spec == Init /\ [][SupNext]_vars

(* the main window: handlers, main-loop callbacks and worker threads *)
InitUI == SupInit /\ LtfsIdle /\ UIInit
SpecUI == InitUI /\ [][UINext]_vars
SpecSession == InitUI /\ [][SessionNext]_vars

(* the mount functions: run_ltfs_rsync, mount_ltfs_only *)
InitLtfs == SupInit /\ LtfsInit /\ UIIdle
SpecLtfs == InitLtfs /\ [][LtfsNext]_vars

(* the leftover sweep on its own, over the session directories that        *)
(* earlier runs left behind                                                *)
SweepInit ==
    /\ \E k \in 0..MaxLeftover :
         /\ dirs = 1..k /\ nextDir = k
         /\ mounted \in SUBSET (1..k)
    /\ mount_point = None /\ ltfs_proc = "none" /\ polls = 0
    /\ pending = "none"
    /\ process_holder = <<>> /\ mount_point_holder = None
    /\ ltfsTermSent = FALSE /\ ltfsKillSent = FALSE
    /\ unmountTried = FALSE /\ rmdirMounted = FALSE
    /\ visibleAtPoll = FALSE /\ daemonized = FALSE
    /\ earlyExit = FALSE /\ timedOut = FALSE /\ rsyncWaits = 0
    /\ have = AllThere
    /\ scanned = {} /\ count = None
    /\ fmLeft = FALSE /\ fbTried = FALSE /\ umCalls = 0
SweepNext ==
    \/ call_unmount_leftover_ltfs_mounts \/ unmount_leftover_ltfs_mounts
InitSweep == SupInit /\ SweepInit /\ UIIdle
SpecSweep == InitSweep /\ [][SweepNext]_vars

(* list_tape_contents reading a long listing, never cancelled (without a *)
(* cancel request the queue.Empty branch only re-enters the wait)         *)
ListNext ==
    \/ call_list_tape_contents_long \/ rewind \/ spawn_tar
    \/ proc_emit \/ proc_exit \/ reader \/ list_get \/ wait_exit
InitList == SupInit /\ LtfsIdle /\ UIIdle
SpecList == InitList /\ [][ListNext]_vars

(* the progress figures of run_ltfs_rsync: read loop and timer thread *)
InitProgress == SupInit /\ LtfsIdle /\ UIIdle
SpecProgress == InitProgress /\ [][ProgressNext]_vars

(* one of the pure functions applied to any argument *)
InitPure == SupInit /\ LtfsIdle /\ UIIdle
SpecPure == InitPure /\ [][PureNext]_vars

(* ======================= properties ==================================== *)

(* C1: when the cancel predicate became true while the supervised process  *)
(* was still running, and stayed true for at least one poll tick of that   *)
(* process, the operation never returns normally (no final "Completed"     *)
(* notification, no returned entry list).                                  *)
C1_CancelNeverCompletes ==
    (pc = "done" /\ cancelWhileRunning /\ sinceCancel >= 1) =>
        outcome # "completed"

(* C2: once the loop has observed the cancellation the process was sent a  *)
(* graceful terminate, it was killed if it outlived the 10 s grace wait,   *)
(* and the caller is still told "cancelled".                               *)
C2_GraceThenKill ==
    (pc = "done" /\ cancelObserved) =>
        /\ termSent
        /\ (outlivedGrace => killSent)
        /\ outcome = "cancelled"

(* C3: after the cancel predicate became true, no more than PollBound poll *)
(* ticks pass before the read loop evaluates it again, whatever the        *)
(* process does.                                                           *)
C3_CancelSeenWithinBound == sinceCancel <= PollBound

(* C4: when run_ltfs_rsync has ended after creating its mount directory,   *)
(* the ltfs process is not left alive, and a mount point that is still     *)
(* mounted has had an unmount attempted on it.                             *)
C4_TeardownOnEveryExit ==
    (op = "ltfs_rsync" /\ pc = "done" /\ mount_point # None) =>
        /\ ltfs_proc # "running"
        /\ (mount_point \in mounted => unmountTried)

(* C5: os.rmdir is never called on a mount directory that the mount table  *)
(* reports as mounted at that moment.                                      *)
C5_RmdirOnlyWhenUnmounted == ~rmdirMounted

(* C6: in run_backup, a positive max_tape_bytes together with a known size *)
(* above it means the call has failed with the capacity-exceeded error     *)
(* and no mt or tar command was spawned.                                   *)
C6_CapacityPrecheck ==
    (/\ op = "backup" /\ max_tape_bytes # None /\ max_tape_bytes > 0
     /\ total_bytes # None /\ total_bytes > max_tape_bytes) =>
        /\ cmds = <<>>
        /\ pc = "done" /\ outcome = "capacity_exceeded"
C6_Witness ==
    /\ op = "backup" /\ pc = "done" /\ outcome = "capacity_exceeded"
    /\ max_tape_bytes > 0 /\ total_bytes > max_tape_bytes

(* C7: at most one worker thread of the window is running an operation on  *)
(* the tape device (run_backup, run_restore, list_tape_contents, erase,    *)
(* format_ltfs) at any instant.                                            *)
C7_OneDeviceWorker ==
    Cardinality({i \in ThreadIds : thr[i].phase = "run"}) <= 1

(* C8: at any instant at most one LTFS session directory (a directory      *)
(* created by mount_ltfs_only or run_ltfs_rsync) is mounted.               *)
C8_OneSessionMounted == Cardinality(mounted) <= 1

(* C9: when a poll before the deadline saw the mount point mounted, the    *)
(* call does not end with the mount-failed or mount-timed-out error, even  *)
(* if ltfs had already exited; run_ltfs_rsync has then spawned rsync once  *)
(* and waited for it once.                                                 *)
C9_VisibleMountIsSuccess ==
    (pc = "done" /\ visibleAtPoll) =>
        /\ outcome \notin {"mount_failed", "mount_timeout"}
        /\ (op = "ltfs_rsync" => Count("rsync") = 1 /\ rsyncWaits = 1)
C9_Witness ==
    /\ pc = "done" /\ op = "ltfs_rsync" /\ daemonized
    /\ outcome = "completed" /\ Count("rsync") = 1 /\ rsyncWaits = 1

(* C10: when a poll saw ltfs exited without the mount, or the deadline     *)
(* passed without the mount, the call ends with the mount-failed,          *)
(* respectively the mount-timed-out error, ltfs is not left alive and      *)
(* rsync was never spawned.                                                *)
C10_MountFailureReported ==
    (pc = "done" /\ (earlyExit \/ timedOut)) =>
        /\ (earlyExit => outcome = "mount_failed")
        /\ (timedOut => outcome = "mount_timeout")
        /\ ltfs_proc # "running"
        /\ ~Spawned("rsync")

(* C17: in run_backup and run_restore every line read from the process's   *)
(* output has been passed to on_log exactly once and in stream order, on   *)
(* every path: what was logged is exactly what was read.                   *)
C17_EveryLineLogged ==
    (op \in {"backup", "restore"}) =>
        logged = [i \in 1..(emitted - Len(pipe)) |-> i]

(* C18: every failing exit of the archive functions raises the domain      *)
(* error; no raw FileNotFoundError or TimeoutExpired reaches the caller.   *)
C18_OnlyDomainErrors ==
    (pc = "done") =>
        outcome \notin {"raw_TimeoutExpired", "raw_FileNotFoundError"}

(* C20: when list_tape_contents ends with the cancellation error, the      *)
(* entries parsed so far have still been made available to the caller.     *)
C20_CancelKeepsEntries ==
    (op = "list" /\ pc = "done" /\ outcome = "cancelled") =>
        returned.entries = entries

(* C15: when a required tool is missing or the device has no generic       *)
(* alias, run_ltfs_rsync, mount_ltfs_only and format_ltfs end with the     *)
(* error for the first unmet requirement, before the sweep, before any     *)
(* mount directory is created and before any process is spawned.           *)
Unmet ==
    CASE op = "ltfs_rsync"  -> ~have.ltfs \/ ~have.rsync \/ ~have.sg
      [] op = "mount_only"  -> ~have.ltfs \/ ~have.sg
      [] op = "format_ltfs" -> ~have.mkltfs \/ ~have.sg
      [] OTHER              -> FALSE
C15_FailFast ==
    Unmet =>
       /\ pc = "done"
       /\ outcome \in {"ltfs_missing", "rsync_missing", "mkltfs_missing",
                        "device_unresolved"}
       /\ (outcome = "ltfs_missing" => ~have.ltfs)
       /\ (outcome = "rsync_missing" => ~have.rsync)
       /\ (outcome = "mkltfs_missing" => ~have.mkltfs)
       /\ (outcome = "device_unresolved" => ~have.sg)
       /\ cmds = <<>> /\ count = None
       /\ mount_point = None /\ ltfs_proc = "none" /\ proc = "none"
C15_Witness ==
    /\ op = "ltfs_rsync" /\ pc = "done" /\ outcome = "device_unresolved"
    /\ have.ltfs /\ have.rsync /\ ~have.sg /\ cmds = <<>>

(* C14: right after a sweep (also a repeated one), every directory that    *)
(* was mounted when scanned and is still mounted has been left in place    *)
(* (so it is a candidate of the next sweep), and the returned count is the  *)
(* number of directories that were mounted when scanned and are no longer  *)
(* mounted.                                                                *)
C14_SweepKeepsMounted ==
    (pc = "mkdtemp" \/ (op = "sweep" /\ pc = "done")) =>
       /\ \A d \in scanned \cap mounted : d \in dirs
       /\ count = Cardinality(scanned \ mounted)
C14_Witness ==
    /\ op = "sweep" /\ pc = "done" /\ Count("sweep") = 2
    /\ Cardinality(scanned) = 2 /\ count = 1
    /\ Cardinality(scanned \cap mounted \cap dirs) = 1

(* C11: when unmount_ltfs, called with the mount point and ltfs process of *)
(* a successful mount_ltfs_only, returns, the mount point is not mounted,  *)
(* its directory is gone and the ltfs process is not running.              *)
C11_MountThenUnmountClean ==
    (op = "unmount_ltfs" /\ umCalls = 1 /\ pc = "done") =>
       /\ mount_point \notin mounted
       /\ mount_point \notin dirs
       /\ ltfs_proc # "running"

(* C12: a second call of unmount_ltfs, after a first call that unmounted   *)
(* and removed the directory, runs no command, sends no signal, removes    *)
(* nothing and raises nothing: no step of it changes the command log, the  *)
(* mount table, the directories or the process.                            *)
C12_SecondUnmountIsNoOp ==
    [][(op = "unmount_ltfs" /\ umCalls = 2
        /\ mount_point \notin dirs /\ mount_point \notin mounted)
       => /\ cmds' = cmds /\ mounted' = mounted /\ dirs' = dirs
          /\ ltfs_proc' = ltfs_proc
          /\ ltfsTermSent' = ltfsTermSent /\ ltfsKillSent' = ltfsKillSent
          /\ outcome' \in {"none", "returned"}]_vars
C12_Witness ==
    /\ op = "unmount_ltfs" /\ umCalls = 2 /\ pc = "done"
    /\ outcome = "returned" /\ Count("fusermount") = 1
    /\ mount_point \notin dirs /\ mount_point \notin mounted

(* C13: in unmount_ltfs and in the teardown of run_ltfs_rsync, whenever    *)
(* fusermount -u has run and the mount point is still mounted afterwards,  *)
(* the fallback umount has been attempted as well.                         *)
C13_FallbackAfterGraceful ==
    (op \in {"unmount_ltfs", "ltfs_rsync"} /\ fmLeft) => fbTried

(* C19: in run_ltfs_rsync the verdict determined before the teardown is    *)
(* the one the caller gets, whatever happens during the teardown.          *)
C19_TeardownKeepsVerdict ==
    (op = "ltfs_rsync" /\ pc = "done" /\ pending # "none") =>
        outcome = pending

(* C16: run_ltfs_rsync never begins while a standalone mount session is    *)
(* recorded as held: at the step where the Backup to LTFS worker enters    *)
(* run_ltfs_rsync the standalone flag is not set together with a session   *)
(* pointer.                                                                *)
C16_NoSyncWhileStandaloneHeld ==
    [][thread_clear_holder =>
          ~(ltfs_standalone_mount /\ mount_point_holder # None)]_vars

(* C21: erase logs its start line before the process is spawned; when the  *)
(* deadline passes first the process is killed and reaped and the call     *)
(* ends with the timed-out error; otherwise a non-zero exit ends it with   *)
(* the failure carrying the exit code; the completion line is logged only  *)
(* when the process exited with code 0 before the deadline.                *)
C21_EraseOutcomes ==
    (op = "erase") =>
        /\ logged # <<>> /\ logged[1] = EraseStarted
        /\ (pc = "done" /\ outlivedGrace) =>
              /\ outcome = "timed_out" /\ killSent /\ proc = "exited"
        /\ (pc = "done" /\ proc = "exited" /\ ~outlivedGrace /\ returncode # 0) =>
              outcome = "tool_failed"
        /\ (outcome = "tool_failed") => (returncode \notin {0, None})
        /\ InLog(EraseCompleted) =>
              /\ returncode = 0 /\ ~outlivedGrace /\ outcome = "completed"
C21_Witness ==
    /\ op = "erase" /\ pc = "done" /\ outcome = "timed_out"
    /\ killSent /\ Len(logged) = 2 /\ emitted = 2

(* byte counts as [mib, rem]: order, whole GiB, exact product *)
Leq(a, b) == a.mib < b.mib \/ (a.mib = b.mib /\ a.rem <= b.rem)
GiB(g) == [mib |-> g * 1024, rem |-> 0]
Scaled(b, k) == [mib |-> b.mib * k + (b.rem * k) \div MiB,
                 rem |-> (b.rem * k) % MiB]
Corrected(b) ==
    IF Leq(GiB(50), b) /\ Leq(b, GiB(500)) THEN Scaled(b, 161) ELSE b

(* C27: the misreport correction returns b * 161 exactly when              *)
(* 50 GiB <= b <= 500 GiB, both ends included, and b otherwise; and every  *)
(* non-None result of query_remaining_capacity_bytes is the corrected      *)
(* value of an answer one of its queries gave.                             *)
C27_MisreportCorrection ==
    /\ (applied = "correction") => result = Corrected(argument)
    /\ (applied = "query" /\ result # NoResult) =>
          \E q \in Queries :
             /\ argument.ans[q] # None
             /\ result = Corrected(FromMiB(argument.ans[q]))
C27_Witness ==
    /\ applied = "correction" /\ argument = GiB(500)
    /\ result = [mib |-> 500 * 1024 * 161, rem |-> 0]

(* the answers in the order: per candidate device, first format then       *)
(* second format                                                           *)
RECURSIVE FirstAnswer(_, _)
FirstAnswer(order, ans) ==
    IF order = <<>> THEN None
    ELSE IF ans[Head(order)] # None THEN ans[Head(order)]
    ELSE FirstAnswer(Tail(order), ans)
DeviceMajor(sg_dev) ==
    <<(<<"nst", "sg_logs">>), (<<"nst", "sg_read_attr">>)>>
    \o (IF sg_dev THEN <<(<<"sg", "sg_logs">>), (<<"sg", "sg_read_attr">>)>>
        ELSE <<>>)

(* C28: query_remaining_capacity_bytes returns the first answer found when *)
(* the candidates are taken device by device (the path, then its generic   *)
(* alias) and, per device, first format then second format; it returns     *)
(* None only when every query it can make gave no answer.                  *)
C28_DeviceThenFormat ==
    (applied = "query") =>
        LET raw == FirstAnswer(DeviceMajor(argument.sg_dev), argument.ans)
        IN  result = IF raw = None THEN NoResult
                     ELSE Corrected(FromMiB(raw))

(* sum of the lines whose first field is a number *)
RECURSIVE SumOfParsable(_)
SumOfParsable(lines) ==
    IF lines = <<>> THEN 0
    ELSE (IF Head(lines) = Unparsable THEN 0 ELSE Head(lines))
         + SumOfParsable(Tail(lines))

(* C30: when the sizing command succeeds, _compute_total_size returns the  *)
(* sum of the byte counts of its parsable lines; an unparsable line is     *)
(* ignored and does not change what the other lines contribute.            *)
C30_UnparsableLinesIgnored ==
    (applied = "total_size" /\ argument.kind = "ok") =>
        result = SumOfParsable(argument.lines)

(* C29: for a line with the CHECKPOINT marker, the record count reported   *)
(* is n * 500 for a well-formed counter n and unchanged for a malformed    *)
(* one; the byte count reported is the number after the direction label    *)
(* (W: when writing, R: when reading) and unchanged when the label is      *)
(* absent; and exactly one progress update is emitted for the line.        *)
C29_CheckpointParsed ==
    (applied = "log" /\ argument.line.marker) =>
        LET line == argument.line
            n == line.counter
            b == IF argument.dir = "backup" THEN line.W ELSE line.R
        IN  /\ result.file_count = IF n # None THEN n * 500
                                   ELSE argument.st.file_count
            /\ result.bytes = IF b # None THEN b ELSE argument.st.bytes
            /\ result.updates = <<result.bytes>>
            /\ result.progress = <<result.file_count>>
C29_Witness ==
    /\ applied = "log" /\ argument.dir = "restore" /\ argument.line.marker
    /\ argument.line.counter = 2 /\ argument.line.R = None /\ argument.line.W = 2
    /\ argument.st.bytes = 1 /\ result.bytes = 1 /\ result.file_count = 1000

(* C22: once the supervised tar / rsync process has exited, run_backup,    *)
(* run_restore and run_ltfs_rsync return normally exactly when its exit    *)
(* code is 0 and no cancellation was observed; a non-zero exit without an  *)
(* observed cancellation ends the call with the error carrying the code.   *)
C22_CompletedIffCleanExit ==
    (op \in {"backup", "restore", "ltfs_rsync"} /\ pc = "done" /\ proc = "exited") =>
        /\ (outcome = "completed") <=> (returncode = 0 /\ ~cancelObserved)
        /\ (returncode # 0 /\ ~cancelObserved) => outcome = "tool_failed"

(* C24: while a worker of a task is running, the cancel flag of that task, *)
(* once set, is not reset to false by any handler or callback of the       *)
(* window.                                                                 *)
C24_CancelFlagMonotonic ==
    [][\A k \in CancelFlags :
          (cancel[k] /\ \E i \in ThreadIds :
                           /\ thr[i].kind = k /\ thr[i].phase = "run"
                           /\ thr'[i] = thr[i])
             => cancel'[k]]_vars

(* C25: a worker that is started begins with the cancel flag of its task   *)
(* false: a request made for an earlier task never reaches it.             *)
C25_WorkerStartsUncancelled ==
    [][\A i \in ThreadIds :
          (thr[i].kind = "free" /\ thr'[i].kind \in CancelFlags)
             => ~cancel'[thr'[i].kind]]_vars

(* C23: once _on_destroy has run, every child process that was still alive *)
(* has been sent the terminate signal, rsync before ltfs, and app.quit()   *)
(* has been reached, also when a process outlives the 5 s wait.            *)
C23_DestroyTerminatesChildren ==
    shutdown.destroyed =>
        LET sig == shutdown.signalled IN
        /\ \A p \in shutdown.alive : \E j \in 1..Len(sig) : sig[j] = p
        /\ \A j, k \in 1..Len(sig) :
              (sig[j][1] = "rsync" /\ sig[k][1] = "ltfs") => j < k
        /\ shutdown.quit

(* C26: every progress update the timer thread of run_ltfs_rsync emits     *)
(* while the total is known carries a byte count not greater than the      *)
(* total, whatever the read loop stores in the shared counter meanwhile.   *)
C26_SamplerWithinTotal ==
    (op = "ltfs_rsync" /\ total_bytes # None) =>
        \A j \in 1..Len(timer_updates) : timer_updates[j] <= total_bytes

(* C31: run_backup and run_restore spawn tar only after every positioning  *)
(* step has run and succeeded, in order: the rewind unless skip_rewind,    *)
(* then for run_restore `fsf` exactly when archive_number > 1; run_backup  *)
(* has passed the capacity check before; with skip_rewind no rewind is     *)
(* issued, and after a positioning step that failed tar is never spawned.  *)
Positioning ==
    (IF skip_rewind THEN <<>> ELSE << <<"mt_rewind", "ok">> >>)
    \o (IF op = "restore" /\ archive_number > 1
        THEN << <<"mt_fsf", "ok">> >> ELSE <<>>)
C31_PositionBeforeTar ==
    (op \in {"backup", "restore"}) =>
        /\ Spawned("tar") =>
              /\ mt_runs = Positioning
              /\ cmds = [i \in 1..Len(mt_runs) |-> mt_runs[i][1]] \o <<"tar">>
              /\ op = "backup" => ~capacity_exceeded(total_bytes, max_tape_bytes)
        /\ (\E i \in 1..Len(mt_runs) : mt_runs[i][2] # "ok") =>
              /\ ~Spawned("tar") /\ pc = "done" /\ outcome # "completed"
        /\ skip_rewind => \A i \in 1..Len(mt_runs) : mt_runs[i][1] # "mt_rewind"
C31_Witness ==
    /\ op = "restore" /\ ~skip_rewind /\ archive_number = 2
    /\ mt_runs = << <<"mt_rewind", "ok">>, <<"mt_fsf", "ok">> >>
    /\ cmds = <<"mt_rewind", "mt_fsf", "tar">>
    /\ outcome = "completed"

(* C32: when the sizing command of run_backup fails, times out, is missing *)
(* or yields no usable sum, every progress update carries the total None   *)
(* and the call goes on to positioning and tar whatever max_tape_bytes is  *)
(* (the capacity check is skipped, not failed); every progress update of   *)
(* run_restore carries the total None.                                     *)
Uncomputable(du) ==
    \/ du.kind \in {"nonzero", "timeout", "missing"}
    \/ du.kind = "ok" /\ \/ du.lines = <<>>
                         \/ \E i \in 1..Len(du.lines) : du.lines[i] = Unparsable
C32_UnknownSizeSkipsPrecheck ==
    /\ (op = "backup" /\ Uncomputable(du_run)) =>
          /\ update_totals # <<>>
          /\ \A i \in 1..Len(update_totals) : update_totals[i] = None
          /\ outcome # "capacity_exceeded"
          /\ pc \notin {"idle", "precheck"}
          /\ (~skip_rewind /\ pc # "rewind") => mt_runs # <<>>
          /\ (pc = "done" /\ outcome = "completed") => Spawned("tar")
    /\ (op = "restore") =>
          /\ update_totals # <<>>
          /\ \A i \in 1..Len(update_totals) : update_totals[i] = None
C32_Witness ==
    /\ op = "backup" /\ du_run.kind = "timeout" /\ max_tape_bytes = 1
    /\ Len(update_totals) = 2 /\ Spawned("tar") /\ outcome = "completed"

(* C33: when list_tape_contents completes normally it returns exactly one  *)
(* entry per printed line that matches the listing grammar, in the order   *)
(* tar printed them; the loop leaves at the end-of-stream marker only when *)
(* every printed line has been consumed; on_progress saw "Reading" at each *)
(* multiple of 100 entries and last "Read N" with N the list length.       *)
Matching(n) == SelectSeq([i \in 1..n |-> i], LAMBDA i : listing[i])
C33_ListingInStreamOrder ==
    (op = "list") =>
        /\ Len(entries) <= Len(Matching(emitted))
        /\ entries = SubSeq(Matching(emitted), 1, Len(entries))
        /\ (pc = "wait") =>
              /\ pipe = <<>> /\ line_queue = <<>>
              /\ entries = Matching(emitted)
        /\ returned.ok =>
              LET N == Len(returned.entries)
              IN  /\ pc = "done" /\ outcome = "completed"
                  /\ returned.entries = Matching(emitted)
                  /\ progress_msgs =
                        [k \in 1..(N \div 100) |-> <<"Reading", 100 * k>>]
                        \o << <<"Read", N>> >>
C33_Witness ==
    /\ op = "list" /\ returned.ok /\ emitted = 200
    /\ \E i \in 1..200 : ~listing[i]
    /\ progress_msgs = << <<"Reading", 100>>, <<"Read", 134>> >>

(* C34: when unmount_ltfs has returned, the ltfs process handed to it is   *)
(* not running any more, whatever the state of the mount directory: every  *)
(* handler step that releases the standalone session by unmount_ltfs(      *)
(* mount_point_holder[0], process_holder[0]) leaves that process dead.     *)
C34_OwnerDeadAfterUnmount ==
    [][(/\ ltfs_standalone_mount /\ mount_point_holder # None
        /\ ~ltfs_standalone_mount' /\ mount_point_holder' = None)
       => FirstOf(process_holder) \notin procs']_vars

(* C35: while a mount session is recorded in mount_point_holder and its    *)
(* path is mounted, no leftover sweep run by a worker of the window        *)
(* unmounts that path or removes its directory.                            *)
C35_SweepSparesHeldSession ==
    [][(/\ mount_point_holder # None /\ mount_point_holder \in mounted
        /\ mount_point_holder' = mount_point_holder
        /\ \E i \in ThreadIds : /\ thr[i].phase = "sweep"
                                /\ thr'[i].phase # "sweep")
       => /\ mount_point_holder \in mounted'
          /\ mount_point_holder \in dirs']_vars

(* C36: a step of the Unmount LTFS handler or of the teardown of           *)
(* run_ltfs_rsync that clears the session pointer leaves the mount point   *)
(* the pointer recorded unmounted.                                         *)
C36_ClearedPointerMeansUnmounted ==
    [][(/\ mount_point_holder # None /\ mount_point_holder' = None
        /\ slot' = slot)       \* not the release by _on_start_ltfs_rsync
       => mount_point_holder \notin mounted']_vars

(* C37: in run_ltfs_rsync the cleanup runs its unmount command on the      *)
(* mount point only when the rsync process is no longer running, on every  *)
(* path: normal completion, non-zero exit and cancellation.                *)
C37_UnmountAfterRsyncExit ==
    (op = "ltfs_rsync" /\ unmountTried) => proc # "running"

(* C38: once run_ltfs_rsync has made its final (total, total) update or    *)
(* has returned or raised, the timer thread makes no further progress      *)
(* update.                                                                 *)
C38_NoUpdateAfterReturn ==
    \A j, k \in 1..Len(ltfs_updates) :
        (j < k /\ ltfs_updates[j][1] \in {"final", "returned"})
            => ltfs_updates[k][1] # "timer"

(* C39: whenever a standalone mount session is held, the first element of  *)
(* the shared process holder is the ltfs process that owns the mount the   *)
(* session pointer names.                                                  *)
C39_HolderHeadOwnsSession ==
    (ltfs_standalone_mount /\ mount_point_holder # None) =>
        FirstOf(process_holder) = <<"ltfs", mount_point_holder>>

(* C40: when mount_ltfs_only raises after it spawned ltfs, the session     *)
(* pointer is as it was before the call, the ltfs process it spawned is no *)
(* longer in the process holder (which is otherwise as before) and is not  *)
(* running, and the directory it created is not left mounted.              *)
C40_FailedMountLeavesNothing ==
    (/\ op = "mount_only" /\ pc = "done" /\ outcome # "completed"
     /\ Spawned("ltfs")) =>
        /\ mount_point_holder = None
        /\ process_holder = <<>>
        /\ ltfs_proc # "running"
        /\ mount_point \notin mounted
====
